---------------------------- MODULE Spec2Model ----------------------------
(***************************************************************************)
(* A model of the Prolog engine: the term model with mutable variable      *)
(* references, the clause compiler, the bytecode interpreter (exec), the   *)
(* procedure dispatch (arrive), the clause activator (clauses.Call) and    *)
(* the Promise trampoline that drives them.                                *)
(***************************************************************************)
EXTENDS Integers, Sequences, FiniteSets, TLC

VARIABLES
    scn,         \* the scenario being run: set-up operations, query, callback policy
    phase,       \* "setup" | "running" | "done"; "compile" | "compiled" and
                 \* "unify" | "unified" when one function is run on its own
    setupIdx,    \* number of set-up operations already applied
    procedures,  \* Engine.procedures: [isNil, tab], tab a function from indicators
    unknown,     \* Engine.unknown
    stack,       \* the stack of Promises inside Promise.Force
    store,       \* the heap of Variable cells: store[i] is Variable i's Ref (Nil = unbound)
    trace,       \* observable events (solutions, host calls, warnings) and probes
    result,      \* what Force returned: Nil while running, else [ok, err]
    cIn,         \* compiler harness: the clause term handed to clause.compile
    cOut,        \* compiler harness: what compile left behind (Nil before the call)
    uIn,         \* unification harness: [a, b, oc, env]
    uOut,        \* unification harness: the result of Compound.Unify (Nil before)
    repl         \* the top level (cmd/1pl): the line buffer, the prompt, the solution
                 \* stream and the place in handleLine; Nil when the engine is run alone

vars == <<scn, phase, setupIdx, procedures, unknown, stack, store, trace, result,
          cIn, cOut, uIn, uOut, repl>>

-----------------------------------------------------------------------------
(* Bounds of the model.                                                    *)

\* Depth of nested Unify calls after which the host stack is taken to overflow.
MaxUnifyDepth == 16
\* Largest number of arguments of the generated wide facts (compiler harness).
MaxWide == 258
\* Depth to which terms are expanded when two resolved terms are compared.
MaxExpand == 6
\* Largest arity of the generated constant facts run by the engine.
MaxFactArity == 3
\* The longest sequence of registrations.
MaxRegs == 3
\* The longest list a recursive predicate walks.
MaxList == 3
\* The most lines the top level reads, and the most solutions a query has.
MaxLines == 3
MaxSols == 2

(* Program constants.                                                      *)
opVoid == 0
opEnter == 1
opCall == 2
opExit == 3
opConst == 4
opVar == 5
opFunctor == 6
opPop == 7
\* The number of values of a Go byte: byte(i) is i modulo ByteMod.
ByteMod == 256
unknownError == 0
unknownFail == 1
unknownWarning == 2
\* predicate0 .. predicate5: the largest arity of a host predicate.
MaxHostArity == 5

-----------------------------------------------------------------------------
(* Terms.                                                                  *)

\* Then(e, F) is F(e): e is evaluated once, whatever the number of uses F makes of it.
Then(e, F(_)) == F(e)

Nil == [t |-> "nil"]
Atom(n) == [t |-> "atom", name |-> n]
Integer(v) == [t |-> "int", val |-> v]
Float(v) == [t |-> "float", fval |-> v]
Variable(i) == [t |-> "var", id |-> i]
Compound(f, as) == [t |-> "cmp", functor |-> f, args |-> as]
procedureIndicator(n, a) == [t |-> "pi", name |-> n, arity |-> a]

EmptyList == Atom("[]")
Cons(h, tl) == Compound(".", <<h, tl>>)

RECURSIVE ListFrom(_, _)
ListFrom(ts, i) == IF i > Len(ts) THEN EmptyList ELSE Cons(ts[i], ListFrom(ts, i + 1))
List(ts) == ListFrom(ts, 1)

\* A new Variable{}: a fresh unbound cell at the end of the heap.
NewVar(st) == Append(st, Nil)
LastVar(st) == Variable(Len(st))

\* n new variables, one after the other.
NewVars(st, n) == st \o [i \in 1..n |-> Nil]

\* Resolve follows Ref links down to a non-variable or an unbound variable.
RECURSIVE Resolve(_, _)
Resolve(t, st) ==
    IF t.t = "var" /\ st[t.id] # Nil THEN Resolve(st[t.id], st) ELSE t

\* Contains(t, v): v occurs in t (after resolution); used by the occurs check.
RECURSIVE Contains(_, _, _)
Contains(t, v, st) ==
    Then(Resolve(t, st), LAMBDA r :
    IF r.t = "var" THEN r = v
    ELSE IF r.t = "cmp" THEN \E i \in 1..Len(r.args) : Contains(r.args[i], v, st)
    ELSE FALSE)

-----------------------------------------------------------------------------
(* Unification.  A call returns [ok, div, st]: st is the heap it leaves    *)
(* (bindings made before a failure stay), div says that the recursion did  *)
(* not end within MaxUnifyDepth nested calls.                              *)

UOk(st) == [ok |-> TRUE, div |-> FALSE, st |-> st]
UFail(st) == [ok |-> FALSE, div |-> FALSE, st |-> st]
UDiverge(st) == [ok |-> FALSE, div |-> TRUE, st |-> st]

RECURSIVE Unify(_, _, _, _, _)
RECURSIVE UnifyArgs(_, _, _, _, _, _)

\* Variable.Unify: bind the (resolved) variable to the other (resolved) side.
VariableUnify(v, t, oc, st, fuel) ==
    Then(Resolve(v, st), LAMBDA r :
    Then(Resolve(t, st), LAMBDA tt :
        IF r.t # "var" THEN Unify(r, tt, oc, st, fuel - 1)
        ELSE IF tt = r THEN UOk(st)
        ELSE IF oc /\ Contains(tt, r, st) THEN UFail(st)
        ELSE UOk([st EXCEPT ![r.id] = tt])))

\* Atom.Unify, Integer.Unify, Float.Unify, procedureIndicator.Unify.
AtomicUnify(a, t, oc, st, fuel) ==
    Then(Resolve(t, st), LAMBDA tt :
    IF tt.t = "var" THEN VariableUnify(tt, a, oc, st, fuel - 1)
    ELSE IF tt = a THEN UOk(st) ELSE UFail(st))

\* A plausible slip in Compound.Unify: the arity comparison is left out and only
\* the arguments both sides have are unified.
CompoundUnifyNoArity(c, t, oc, st, fuel) ==
    Then(Resolve(t, st), LAMBDA tt :
    IF tt.t = "cmp" THEN
        IF c.functor # tt.functor THEN UFail(st)
        ELSE UnifyArgs(IF Len(c.args) <= Len(tt.args) THEN c.args
                       ELSE SubSeq(c.args, 1, Len(tt.args)),
                       tt.args, 1, oc, st, fuel - 1)
    ELSE IF tt.t = "var" THEN VariableUnify(tt, c, oc, st, fuel - 1)
    ELSE UFail(st))

\* Compound.Unify.
CompoundUnify(c, t, oc, st, fuel) ==
    Then(Resolve(t, st), LAMBDA tt :
    IF tt.t = "cmp" THEN
        IF c.functor # tt.functor THEN UFail(st)
        ELSE IF Len(c.args) # Len(tt.args) THEN UFail(st)
        ELSE UnifyArgs(c.args, tt.args, 1, oc, st, fuel - 1)
    ELSE IF tt.t = "var" THEN VariableUnify(tt, c, oc, st, fuel - 1)
    ELSE UFail(st))

\* A plausible slip in the argument loop: a pair that does not unify is noted and
\* the loop goes on to the end ("ok = ok && argOk").
RECURSIVE UnifyArgsOn(_, _, _, _, _, _)
UnifyArgsOn(as, bs, i, oc, st, fuel) ==
    IF i > Len(as) THEN UOk(st)
    ELSE Then(Unify(as[i], bs[i], oc, st, fuel), LAMBDA r :
         Then(UnifyArgsOn(as, bs, i + 1, oc, r.st, fuel), LAMBDA rest :
             IF r.ok THEN rest ELSE [r EXCEPT !.st = rest.st]))

\* The argument loop of Compound.Unify: left to right, the heap threaded, stopping
\* at the first pair that does not unify.
UnifyArgs(as, bs, i, oc, st, fuel) ==
    IF i > Len(as) THEN UOk(st)
    ELSE Then(Unify(as[i], bs[i], oc, st, fuel), LAMBDA r :
         IF ~r.ok THEN r ELSE UnifyArgs(as, bs, i + 1, oc, r.st, fuel))

\* a.Unify(b, oc): the method of a's dynamic type.
Unify(a, b, oc, st, fuel) ==
    IF fuel <= 0 THEN UDiverge(st)
    ELSE IF a.t = "cmp" THEN CompoundUnify(a, b, oc, st, fuel)
    ELSE IF a.t = "var" THEN VariableUnify(a, b, oc, st, fuel)
    ELSE AtomicUnify(a, b, oc, st, fuel)

\* The unification the engine uses everywhere: occurs check off.
U(a, b, st) == Unify(a, b, FALSE, st, MaxUnifyDepth)

-----------------------------------------------------------------------------
(* Errors.                                                                 *)

PlainError(m) == [kind |-> "error", msg |-> m, culprit |-> Nil]
systemError(m) == [kind |-> "system_error", msg |-> m, culprit |-> Nil]
typeErrorCallable(t) == [kind |-> "type_error", msg |-> "callable", culprit |-> t]
existenceErrorProcedure(t) ==
    [kind |-> "existence_error", msg |-> "procedure", culprit |-> t]

-----------------------------------------------------------------------------
(* The clause compiler.  A clause is [pf, raw, xrTable, vars, bytecode];   *)
(* bytecode is a sequence of bytes.  Each step returns the clause it has   *)
(* written so far and the error it returns (Nil for none).                 *)

Byte(i) == i % ByteMod

EmptyClause ==
    [pf |-> Nil, raw |-> Nil, xrTable |-> <<>>, vars |-> <<>>, bytecode |-> <<>>]

COk(c) == [c |-> c, err |-> Nil, panic |-> FALSE]
CErr(c, e) == [c |-> c, err |-> e, panic |-> FALSE]
CPanic(c) == [c |-> c, err |-> Nil, panic |-> TRUE]

Emit1(c, b) == [c EXCEPT !.bytecode = Append(@, b)]
Emit2(c, b1, b2) == [c EXCEPT !.bytecode = Append(Append(@, b1), b2)]

\* The least element of a set of numbers, or n when it is empty.
LeastOr(hits, n) == IF hits = {} THEN n ELSE CHOOSE i \in hits : \A j \in hits : i <= j

\* The loop of xrOffset: the first index (from 0) whose entry unifies with o, or
\* Len(xs) when the loop ends without one.
FirstUnifying(xs, o) ==
    LeastOr({i \in 0..(Len(xs) - 1) : U(xs[i + 1], o, <<>>).ok}, Len(xs))

\* A plausible slip in xrOffset: an entry that is found is answered with the offset
\* of the last entry.
xrOffsetLast(c, o) ==
    Then(FirstUnifying(c.xrTable, o), LAMBDA i :
    IF i < Len(c.xrTable) THEN [c |-> c, off |-> Byte(Len(c.xrTable) - 1)]
    ELSE [c |-> [c EXCEPT !.xrTable = Append(@, o)], off |-> Byte(Len(c.xrTable))])

\* clause.xrOffset: [c, off], the clause with o in its xrTable and o's offset byte.
xrOffset(c, o) ==
    Then(FirstUnifying(c.xrTable, o), LAMBDA i :
    IF i < Len(c.xrTable) THEN [c |-> c, off |-> Byte(i)]
    ELSE [c |-> [c EXCEPT !.xrTable = Append(@, o)], off |-> Byte(Len(c.xrTable))])

\* The loop of varOffset: the first index (from 0) holding the variable o itself.
FirstSame(xs, o) == LeastOr({i \in 0..(Len(xs) - 1) : xs[i + 1] = o}, Len(xs))

\* clause.varOffset: the slot of variable o (by identity), added when new.
varOffset(c, o) ==
    Then(FirstSame(c.vars, o), LAMBDA i :
    IF i < Len(c.vars) THEN [c |-> c, off |-> Byte(i)]
    ELSE [c |-> [c EXCEPT !.vars = Append(@, o)], off |-> Byte(Len(c.vars))])

RECURSIVE compileArg(_, _)
RECURSIVE compileRange(_, _, _, _)

\* The loops "for _, a := range Args { if err := c.compileArg(a) ... }" over
\* as[lo..hi]: the arguments in order, ending at the first error.  The range is
\* halved so that a long argument list does not nest deeply.
compileRange(c, as, lo, hi) ==
    IF lo > hi THEN COk(c)
    ELSE IF lo = hi THEN compileArg(c, as[lo])
    ELSE Then(compileRange(c, as, lo, (lo + hi) \div 2), LAMBDA r :
         IF r.err # Nil THEN r ELSE compileRange(r.c, as, (lo + hi) \div 2 + 1, hi))

compileArgs(c, as, i) == compileRange(c, as, i, Len(as))

\* A plausible slip in compileArg: a compound argument is not closed by opPop.
compileArgNoPop(c, a) ==
    IF a.t = "var" THEN
        Then(varOffset(c, a), LAMBDA r : COk(Emit2(r.c, opVar, r.off)))
    ELSE IF a.t \in {"float", "int", "atom"} THEN
        Then(xrOffset(c, a), LAMBDA r : COk(Emit2(r.c, opConst, r.off)))
    ELSE IF a.t = "cmp" THEN
        Then(xrOffset(c, procedureIndicator(a.functor, Len(a.args))), LAMBDA r :
            compileArgs(Emit2(r.c, opFunctor, r.off), a.args, 1))
    ELSE CErr(c, systemError("unknown argument"))

\* clause.compileArg.
compileArg(c, a) ==
    IF a.t = "var" THEN
        Then(varOffset(c, a), LAMBDA r : COk(Emit2(r.c, opVar, r.off)))
    ELSE IF a.t \in {"float", "int", "atom"} THEN
        Then(xrOffset(c, a), LAMBDA r : COk(Emit2(r.c, opConst, r.off)))
    ELSE IF a.t = "cmp" THEN
        Then(xrOffset(c, procedureIndicator(a.functor, Len(a.args))), LAMBDA r :
        Then(compileArgs(Emit2(r.c, opFunctor, r.off), a.args, 1), LAMBDA rs :
            IF rs.err # Nil THEN rs ELSE COk(Emit1(rs.c, opPop))))
    ELSE CErr(c, systemError("unknown argument"))

\* A plausible slip in compilePred: a goal of another kind is passed over.
compilePredNoCheck(c, p) ==
    IF p.t = "atom" THEN
        Then(xrOffset(c, procedureIndicator(p.name, 0)), LAMBDA r :
            COk(Emit2(r.c, opCall, r.off)))
    ELSE IF p.t = "cmp" THEN
        Then(compileArgs(c, p.args, 1), LAMBDA rs :
        IF rs.err # Nil THEN rs
        ELSE Then(xrOffset(rs.c, procedureIndicator(p.functor, Len(p.args))), LAMBDA r :
             COk(Emit2(r.c, opCall, r.off))))
    ELSE COk(c)

\* clause.compilePred.
compilePred(c, p) ==
    IF p.t = "atom" THEN
        Then(xrOffset(c, procedureIndicator(p.name, 0)), LAMBDA r :
            COk(Emit2(r.c, opCall, r.off)))
    ELSE IF p.t = "cmp" THEN
        Then(compileArgs(c, p.args, 1), LAMBDA rs :
        IF rs.err # Nil THEN rs
        ELSE Then(xrOffset(rs.c, procedureIndicator(p.functor, Len(p.args))), LAMBDA r :
             COk(Emit2(r.c, opCall, r.off))))
    ELSE CErr(c, typeErrorCallable(p))

\* A plausible slip in the conjunction loop: the spine is compiled from its far
\* end, the last goal first.
RECURSIVE compileBodyReversed(_, _)
compileBodyReversed(c, body) ==
    IF body.t = "cmp" /\ body.functor = "," /\ Len(body.args) = 2 THEN
        Then(compileBodyReversed(c, body.args[2]), LAMBDA r :
        IF r.err # Nil THEN r ELSE compilePred(r.c, body.args[1]))
    ELSE compilePred(c, body)

\* The conjunction loop of compileClause: every left goal of the ','/2 spine, then
\* the last goal.
RECURSIVE compileBody(_, _)
compileBody(c, body) ==
    IF body.t = "cmp" /\ body.functor = "," /\ Len(body.args) = 2 THEN
        Then(compilePred(c, body.args[1]), LAMBDA r :
        IF r.err # Nil THEN r ELSE compileBody(r.c, body.args[2]))
    ELSE compilePred(c, body)

\* A plausible slip in compileClause: the closing exit is written only for facts.
compileClauseNoExit(c, head, body) ==
    Then(IF head.t = "atom" THEN COk(c)
         ELSE IF head.t = "cmp" THEN compileArgs(c, head.args, 1)
         ELSE CErr(c, typeErrorCallable(head)), LAMBDA h :
        IF h.err # Nil THEN h
        ELSE IF body # Nil THEN compileBody(Emit1(h.c, opEnter), body)
        ELSE COk(Emit1(h.c, opExit)))

\* clause.compileClause; body = Nil stands for Go's nil body.
compileClause(c, head, body) ==
    Then(IF head.t = "atom" THEN COk(c)
         ELSE IF head.t = "cmp" THEN compileArgs(c, head.args, 1)
         ELSE CErr(c, typeErrorCallable(head)), LAMBDA h :
        IF h.err # Nil THEN h
        ELSE IF body # Nil THEN
            Then(compileBody(Emit1(h.c, opEnter), body), LAMBDA b :
            IF b.err # Nil THEN b ELSE COk(Emit1(b.c, opExit)))
        ELSE COk(Emit1(h.c, opExit)))

\* clause.compile.  Reading t.Args[1] of a ':-' compound with one argument is an
\* index out of range: the host panics.
compile(c, t0, st) ==
    Then(Resolve(t0, st), LAMBDA t :
    Then([c EXCEPT !.raw = t], LAMBDA c1 :
        IF t.t = "atom" THEN compileClause(c1, t, Nil)
        ELSE IF t.t = "cmp" THEN
            IF t.functor = ":-" THEN
                IF Len(t.args) < 2 THEN CPanic(c1)
                ELSE compileClause(c1, t.args[1], t.args[2])
            ELSE compileClause(c1, t, Nil)
        ELSE CErr(c1, typeErrorCallable(t))))

-----------------------------------------------------------------------------
(* Reading bytecode back as instructions.                                  *)

HasOperand(op) == op \in {opCall, opConst, opVar, opFunctor}

\* At most n instructions of the tape from byte i on, [op, arg] each (arg = -1 for
\* none or missing), and the byte that follows them.  n is halved so that a long
\* tape does not nest deeply.
RECURSIVE InstrsFrom(_, _, _)
InstrsFrom(pc, i, n) ==
    IF i > Len(pc) \/ n = 0 THEN [ins |-> <<>>, next |-> i]
    ELSE IF n = 1 THEN
        IF HasOperand(pc[i])
        THEN [ins |-> << [op |-> pc[i], arg |-> IF i < Len(pc) THEN pc[i + 1] ELSE -1] >>,
              next |-> i + 2]
        ELSE [ins |-> << [op |-> pc[i], arg |-> -1] >>, next |-> i + 1]
    ELSE Then(InstrsFrom(pc, i, n \div 2), LAMBDA l :
         Then(InstrsFrom(pc, l.next, n - n \div 2), LAMBDA r :
             [ins |-> l.ins \o r.ins, next |-> r.next]))

Instrs(pc) == InstrsFrom(pc, 1, Len(pc)).ins

CountOp(ins, op) == Cardinality({i \in 1..Len(ins) : ins[i].op = op})

-----------------------------------------------------------------------------
(* Promises, thunks and continuations.                                     *)
(* A closure is the record of what it captures:                            *)
(*   thunks        "arrive" (the func of opCall, and the query's goal),    *)
(*                 "pcall"  (the func of arrive), "alt" (ks[i] of          *)
(*                 clauses.Call), "resume" (the inner func of opCall's     *)
(*                 continuation), "k" (a continuation delayed by opExit);  *)
(*   continuations "kont" (opCall's continuation), "hostk" (the one a host *)
(*                 predicate is given), "top" (the query's callback),      *)
(*                 "done" (Done).                                          *)

Bool(b) == [pk |-> "bool", ok |-> b]
Error(e) == [pk |-> "error", err |-> e]
Delay(ths) == [pk |-> "delay", delayed |-> ths]
\* The host raised instead of returning a Promise (index out of range, nil
\* dereference, stack overflow).
Panic(m) == [pk |-> "panic", why |-> m]

Done == [kk |-> "done"]

Ret(p, w) == [p |-> p, w |-> w]
Log(w, e) == [w EXCEPT !.tr = Append(@, e)]

-----------------------------------------------------------------------------
(* What an observer reads off the query's variables.                       *)

\* t with its bindings followed, to depth d.
RECURSIVE Expand(_, _, _)
Expand(t, st, d) ==
    Then(Resolve(t, st), LAMBDA r :
    IF r.t # "cmp" THEN r
    ELSE IF d = 0 THEN [t |-> "cut"]
    ELSE Compound(r.functor, [i \in 1..Len(r.args) |-> Expand(r.args[i], st, d - 1)]))

\* The unbound variables of t in the order of their first occurrence.
RECURSIVE TermVars(_, _)
RECURSIVE TermVarsSeq(_, _, _)
TermVars(t, acc) ==
    IF t.t = "var" THEN
        IF \E i \in 1..Len(acc) : acc[i] = t.id THEN acc ELSE Append(acc, t.id)
    ELSE IF t.t = "cmp" THEN TermVarsSeq(t.args, 1, acc)
    ELSE acc
TermVarsSeq(ts, i, acc) ==
    IF i > Len(ts) THEN acc ELSE TermVarsSeq(ts, i + 1, TermVars(ts[i], acc))

RECURSIVE Rename(_, _)
Rename(t, order) ==
    IF t.t = "var" THEN
        [t |-> "free", n |-> CHOOSE i \in 1..Len(order) : order[i] = t.id]
    ELSE IF t.t = "cmp" THEN
        Compound(t.functor, [i \in 1..Len(t.args) |-> Rename(t.args[i], order)])
    ELSE t

\* The bindings of the query's variables 1..n; unbound variables are named by
\* their first occurrence, so that only what is bound to what is compared.
Bindings(st, n) ==
    Then([i \in 1..n |-> Expand(Variable(i), st, MaxExpand)], LAMBDA ts :
    Then(TermVarsSeq(ts, 1, <<>>), LAMBDA order :
        [i \in 1..n |-> Rename(ts[i], order)]))

Snap(w) == Bindings(w.st, w.nq)

-----------------------------------------------------------------------------
(* The builtins exec forces inline.  Each returns [ok, err, st].           *)

BOk(r) == [ok |-> r.ok, err |-> IF r.div THEN systemError("stack overflow") ELSE Nil,
           st |-> r.st]

\* Functor(term, name, arity, Done).Force() with name and arity given: a variable
\* is bound to name(_, ..., _) with fresh arguments (to name when arity is 0), a
\* compound or atomic term is compared with name/arity.
Functor(term, name, arity, st) ==
    Then(Resolve(term, st), LAMBDA t :
    IF t.t = "var" THEN
        IF arity = 0 THEN BOk(U(t, Atom(name), st))
        ELSE BOk(U(t, Compound(name, [i \in 1..arity |-> Variable(Len(st) + i)]),
                   NewVars(st, arity)))
    ELSE IF t.t = "cmp" THEN
        [ok |-> t.functor = name /\ Len(t.args) = arity, err |-> Nil, st |-> st]
    ELSE [ok |-> t = Atom(name) /\ arity = 0, err |-> Nil, st |-> st])

\* Univ(term, list, Done).Force() with term bound: list is unified with the list
\* of term's functor and arguments.
Univ(term, list, st) ==
    Then(Resolve(term, st), LAMBDA t :
    IF t.t = "cmp" THEN BOk(U(list, Cons(Atom(t.functor), List(t.args)), st))
    ELSE IF t.t = "var" THEN
        [ok |-> FALSE, err |-> PlainError("instantiation_error"), st |-> st]
    ELSE BOk(U(list, List(<<t>>), st)))

-----------------------------------------------------------------------------
(* Engine.exec.  m is the machine [pc, xr, vars, k, args, astack, fid]     *)
(* (fid names the activation the registers belong to); w is the world      *)
(* [st, tr, ...] the call reads and writes.  Returns [p, w].               *)

WithSt(w, st) == [w EXCEPT !.st = st]

\* A unification result that is not a success, as exec returns it.
FalseOr(r, w) ==
    IF r.div THEN Ret(Panic("stack overflow"), WithSt(w, r.st))
    ELSE Ret(Bool(FALSE), WithSt(w, r.st))

\* The operand pc[1] can be read and indexes xr (or vars); a nil slice is empty.
OperandIn(m, tbl) ==
    Len(m.pc) >= 2 /\ m.pc[2] < Len(tbl)

Rest1(pc) == Tail(pc)
Rest2(pc) == SubSeq(pc, 3, Len(pc))

CountEv(tr, e) == Cardinality({i \in 1..Len(tr) : tr[i].ev = e})

\* The query's callback: it is shown the bindings and says whether to stop.
topCallback(w) ==
    Ret(Bool(CountEv(w.tr, "sol") + 1 = w.stopAt),
        Log(w, [ev |-> "sol", binds |-> Snap(w)]))

RECURSIVE exec(_, _)

\* case opConst / case opVar: x is xr[pc[1]] or vars[pc[1]].
execArg(m, w, x) ==
    IF m.args = Nil THEN Ret(Panic("nil args"), w)
    ELSE
    Then(NewVar(w.st), LAMBDA st1 :
    Then(U(m.args, Cons(x, LastVar(st1)), st1), LAMBDA r :
        IF ~r.ok THEN FalseOr(r, w)
        ELSE exec([m EXCEPT !.pc = Rest2(@), !.args = LastVar(st1)], WithSt(w, r.st))))

\* (The probes of opFunctor and opPop record the registers: arest and astack as
\* opFunctor found them, args and astack as opPop leaves them, with the heap.)
\* case opFunctor, after args was unified with [arg | arest] and xr[pc[1]] was
\* found to be the indicator x: Functor, then Univ with a fresh args.
execFunctorArg(m, w, x, arg, arest, st) ==
    Then(Functor(arg, x.name, x.arity, st), LAMBDA f :
    IF f.err # Nil THEN Ret(Error(f.err), WithSt(w, f.st))
    ELSE IF ~f.ok THEN Ret(Bool(FALSE), WithSt(w, f.st))
    ELSE
    Then(NewVar(f.st), LAMBDA st2 :
    Then(Univ(arg, Cons(Atom(x.name), LastVar(st2)), st2), LAMBDA u :
        IF u.err # Nil THEN Ret(Error(u.err), WithSt(w, u.st))
        ELSE IF ~u.ok THEN Ret(Bool(FALSE), WithSt(w, u.st))
        ELSE exec([m EXCEPT !.pc = Rest2(@), !.args = LastVar(st2),
                            !.astack = Cons(arest, m.astack)],
                  Log(WithSt(w, u.st),
                      [ev |-> "functor", fid |-> m.fid, arest |-> arest,
                       astack |-> m.astack])))))

\* case opFunctor.
execFunctor(m, w) ==
    IF m.args = Nil THEN Ret(Panic("nil args"), w)
    ELSE
    Then(m.xr[m.pc[2] + 1], LAMBDA x :
    Then(Variable(Len(w.st) + 1), LAMBDA arg :
    Then(Variable(Len(w.st) + 2), LAMBDA arest :
    Then(U(m.args, Cons(arg, arest), NewVars(w.st, 2)), LAMBDA r1 :
        IF ~r1.ok THEN FalseOr(r1, w)
        ELSE IF x.t # "pi" THEN
            Ret(Error(PlainError("not a principal functor")), WithSt(w, r1.st))
        ELSE execFunctorArg(m, w, x, arg, arest, r1.st)))))

\* case opPop.
execPop(m, w) ==
    IF m.args = Nil THEN Ret(Panic("nil args"), w)
    ELSE
    Then(U(m.args, EmptyList, w.st), LAMBDA r1 :
    IF ~r1.ok THEN FalseOr(r1, w)
    ELSE IF m.astack = Nil THEN Ret(Panic("nil astack"), WithSt(w, r1.st))
    ELSE
    Then(Variable(Len(r1.st) + 1), LAMBDA a :
    Then(Variable(Len(r1.st) + 2), LAMBDA arest :
    Then(U(m.astack, Cons(a, arest), NewVars(r1.st, 2)), LAMBDA r2 :
        IF ~r2.ok THEN FalseOr(r2, w)
        ELSE exec([m EXCEPT !.pc = Rest1(@), !.args = a, !.astack = arest],
                  Log(WithSt(w, r2.st),
                      [ev |-> "pop", fid |-> m.fid, args |-> a, astack |-> arest,
                       st |-> r2.st]))))))

\* case opEnter.
execEnter(m, w) ==
    IF m.args = Nil THEN Ret(Panic("nil args"), w)
    ELSE
    Then(U(m.args, EmptyList, w.st), LAMBDA r1 :
    IF ~r1.ok THEN FalseOr(r1, w)
    ELSE IF m.astack = Nil THEN Ret(Panic("nil astack"), WithSt(w, r1.st))
    ELSE
    Then(U(m.astack, EmptyList, r1.st), LAMBDA r2 :
    IF ~r2.ok THEN FalseOr(r2, w)
    ELSE Then(NewVar(r2.st), LAMBDA st1 :
         exec([m EXCEPT !.pc = Rest1(@), !.args = LastVar(st1),
                        !.astack = LastVar(st1)],
              WithSt(w, st1)))))

\* opCall's continuation, func() Promise { var v Variable; return Delay(...) }.
Kont(m) == [kk |-> "kont", pc |-> Rest2(m.pc), xr |-> m.xr, vars |-> m.vars,
            k |-> m.k, fid |-> m.fid]

\* A plausible slip in opCall: the goal is dispatched with the registers' args
\* instead of the list collected on astack.
execCallArgs(m, w) ==
    IF m.args = Nil THEN Ret(Panic("nil args"), w)
    ELSE
    Then(m.xr[m.pc[2] + 1], LAMBDA x :
    Then(U(m.args, EmptyList, w.st), LAMBDA r :
        IF ~r.ok THEN FalseOr(r, w)
        ELSE IF x.t # "pi" THEN
            Ret(Error(PlainError("not a principal functor")), WithSt(w, r.st))
        ELSE Ret(Delay(<< [th |-> "arrive", pf |-> x, args |-> m.args,
                           k |-> Kont(m)] >>),
                 WithSt(w, r.st))))

\* case opCall: the Delay of the func that calls arrive with astack and with the
\* continuation that resumes the rest of the tape.
execCall(m, w) ==
    IF m.args = Nil THEN Ret(Panic("nil args"), w)
    ELSE
    Then(m.xr[m.pc[2] + 1], LAMBDA x :
    Then(U(m.args, EmptyList, w.st), LAMBDA r :
        IF ~r.ok THEN FalseOr(r, w)
        ELSE IF x.t # "pi" THEN
            Ret(Error(PlainError("not a principal functor")), WithSt(w, r.st))
        ELSE Ret(Delay(<< [th |-> "arrive", pf |-> x, args |-> m.astack,
                           k |-> Kont(m)] >>),
                 WithSt(w, r.st))))

\* A plausible slip in opExit: the continuation is called on the spot ("return
\* k()") when it is the caller's own function.
execExitNow(m, w) ==
    IF m.k.kk = "top" THEN topCallback(w)
    ELSE Ret(Delay(<< [th |-> "k", k |-> m.k] >>), w)

\* case opExit: return Delay(k).
execExit(m, w) == Ret(Delay(<< [th |-> "k", k |-> m.k] >>), w)

exec(m, w) ==
    IF Len(m.pc) = 0 THEN Ret(Error(PlainError("non-exit end of bytecode")), w)
    ELSE IF m.pc[1] = opVoid THEN exec([m EXCEPT !.pc = Rest1(@)], w)
    ELSE IF m.pc[1] = opConst THEN
        IF ~OperandIn(m, m.xr) THEN Ret(Panic("index out of range"), w)
        ELSE execArg(m, w, m.xr[m.pc[2] + 1])
    ELSE IF m.pc[1] = opVar THEN
        IF ~OperandIn(m, m.vars) THEN Ret(Panic("index out of range"), w)
        ELSE execArg(m, w, m.vars[m.pc[2] + 1])
    ELSE IF m.pc[1] = opFunctor THEN
        IF ~OperandIn(m, m.xr) THEN Ret(Panic("index out of range"), w)
        ELSE execFunctor(m, w)
    ELSE IF m.pc[1] = opPop THEN execPop(m, w)
    ELSE IF m.pc[1] = opEnter THEN execEnter(m, w)
    ELSE IF m.pc[1] = opCall THEN
        IF ~OperandIn(m, m.xr) THEN Ret(Panic("index out of range"), w)
        ELSE execCall(m, w)
    ELSE IF m.pc[1] = opExit THEN execExit(m, w)
    ELSE Ret(Error(PlainError("unknown opcode")), w)

-----------------------------------------------------------------------------
(* Procedures: [kind |-> "clauses", cs] for a user-defined procedure,      *)
(* [kind |-> "host", arity, fn, name] for a predicate0..predicate5.        *)

Lookup(pi) ==
    IF ~procedures.isNil /\ pi \in DOMAIN procedures.tab THEN procedures.tab[pi]
    ELSE Nil

\* Invoking a continuation.
InvokeK(k, w) ==
    IF k.kk = "done" THEN Ret(Bool(TRUE), w)
    ELSE IF k.kk = "top" THEN topCallback(w)
    ELSE IF k.kk = "hostk" THEN
        \* func() Promise { return e.exec([]byte{opExit}, nil, nil, k, nil, nil) }
        exec([pc |-> <<opExit>>, xr |-> <<>>, vars |-> <<>>, k |-> k.k,
              args |-> Nil, astack |-> Nil, fid |-> 0], w)
    ELSE
        \* opCall's continuation: a fresh v, and the Delay of the resumption
        Ret(Delay(<< [th |-> "resume", pc |-> k.pc, xr |-> k.xr, vars |-> k.vars,
                      k |-> k.k, v |-> Variable(Len(w.st) + 1), fid |-> k.fid] >>),
            WithSt(w, NewVar(w.st)))

\* The probe of a call of arrive: what it was given and what it returned.
Arrived(pi, present, args, k, w0, r) ==
    Ret(r.p, Log(r.w, [ev |-> "arrive", pi |-> pi, present |-> present,
                       args |-> args, k |-> k, p |-> r.p,
                       warned |-> Len(r.w.tr) - Len(w0.tr)]))

\* A plausible slip in arrive: the warning case returns without falling through,
\* and the fail case logs.
arriveSwapped(pi, args, k, w) ==
    IF Lookup(pi) = Nil THEN
        Arrived(pi, FALSE, args, k, w,
            IF unknown = unknownError THEN
                Ret(Error(existenceErrorProcedure(
                        Compound("/", <<Atom(pi.name), Integer(pi.arity)>>))), w)
            ELSE IF unknown = unknownWarning THEN Ret(Bool(FALSE), w)
            ELSE IF unknown = unknownFail THEN
                Ret(Bool(FALSE), Log(w, [ev |-> "warn", pi |-> pi]))
            ELSE Ret(Error(systemError("unknown unknown")), w))
    ELSE Arrived(pi, TRUE, args, k, w,
            Ret(Delay(<< [th |-> "pcall", pi |-> pi, args |-> args, k |-> k] >>), w))

\* A plausible slip in arrive: a procedure without clauses counts as unknown
\* ("if p == nil || len(p) == 0").
arriveNoClauses(pi, args, k, w) ==
    IF Lookup(pi) = Nil \/ (Lookup(pi).kind = "clauses" /\ Lookup(pi).cs = <<>>) THEN
        Arrived(pi, FALSE, args, k, w,
            IF unknown = unknownError THEN
                Ret(Error(existenceErrorProcedure(
                        Compound("/", <<Atom(pi.name), Integer(pi.arity)>>))), w)
            ELSE IF unknown = unknownWarning THEN
                Ret(Bool(FALSE), Log(w, [ev |-> "warn", pi |-> pi]))
            ELSE IF unknown = unknownFail THEN Ret(Bool(FALSE), w)
            ELSE Ret(Error(systemError("unknown unknown")), w))
    ELSE Arrived(pi, TRUE, args, k, w,
            Ret(Delay(<< [th |-> "pcall", pi |-> pi, args |-> args, k |-> k] >>), w))

\* Engine.arrive.  The delayed func captures the procedure found; the model keeps
\* its indicator, the table being fixed while a query runs.
arrive(pi, args, k, w) ==
    IF Lookup(pi) = Nil THEN
        Arrived(pi, FALSE, args, k, w,
            IF unknown = unknownError THEN
                Ret(Error(existenceErrorProcedure(
                        Compound("/", <<Atom(pi.name), Integer(pi.arity)>>))), w)
            ELSE IF unknown = unknownWarning THEN
                Ret(Bool(FALSE), Log(w, [ev |-> "warn", pi |-> pi]))
            ELSE IF unknown = unknownFail THEN Ret(Bool(FALSE), w)
            ELSE Ret(Error(systemError("unknown unknown")), w))
    ELSE Arrived(pi, TRUE, args, k, w,
            Ret(Delay(<< [th |-> "pcall", pi |-> pi, args |-> args, k |-> k] >>), w))

\* assignment.add / newAssignment: the unbound variables reachable from t.
RECURSIVE add(_, _, _)
RECURSIVE addAll(_, _, _, _)
add(a, t, st) ==
    IF t.t = "var" THEN
        IF st[t.id] # Nil THEN add(a, st[t.id], st)
        ELSE IF \E i \in 1..Len(a) : a[i] = t.id THEN a
        ELSE Append(a, t.id)
    ELSE IF t.t = "cmp" THEN addAll(a, t.args, 1, st)
    ELSE a
addAll(a, ts, i, st) ==
    IF i > Len(ts) THEN a ELSE addAll(add(a, ts[i], st), ts, i + 1, st)

newAssignment(t, st) == add(<<>>, t, st)

\* A plausible slip in reset: nothing is unbound.
resetNothing(a, st) == st

\* assignment.reset.
reset(a, st) ==
    [i \in 1..Len(st) |-> IF \E j \in 1..Len(a) : a[j] = i THEN Nil ELSE st[i]]

\* The probe of a clause activation: its number, the height of the Promise stack
\* under it and the bindings it starts from.
Activation(w, cs) ==
    [ev |-> "act", aid |-> CountEv(w.tr, "act") + 1, base |-> w.base, n |-> Len(cs),
     pi |-> cs[1].pf, snap |-> Snap(w)]

\* A plausible slip in clauses.Call: the alternatives are delayed last clause first.
clausesCallReversed(cs, args, k, w) ==
    IF Len(cs) = 0 THEN Ret(Bool(FALSE), w)
    ELSE
    Then(newAssignment(args, w.st), LAMBDA a :
    Then(Activation(w, cs), LAMBDA e :
        Ret(Delay([i \in 1..Len(cs) |->
                     [th |-> "alt", aid |-> e.aid, a |-> a, c |-> cs[Len(cs) + 1 - i],
                      idx |-> i, k |-> k, args |-> args]]), Log(w, e))))

\* clauses.Call: one alternative per clause, joined by Delay.
clausesCall(cs, args, k, w) ==
    IF Len(cs) = 0 THEN Ret(Bool(FALSE), w)
    ELSE
    Then(newAssignment(args, w.st), LAMBDA a :
    Then(Activation(w, cs), LAMBDA e :
        Ret(Delay([i \in 1..Len(cs) |->
                     [th |-> "alt", aid |-> e.aid, a |-> a, c |-> cs[i],
                      idx |-> i, k |-> k, args |-> args]]), Log(w, e))))

\* The probe of an alternative that starts: which activation and clause it is, the
\* slots it runs with, what they hold, and the size of the heap before them.
Alternative(th, w, st1, vs, fid) ==
    [ev |-> "alt", aid |-> th.aid, idx |-> th.idx, fid |-> fid,
     raw |-> th.c.raw, h |-> w.base,
     ncalls |-> CountOp(Instrs(th.c.bytecode), opCall),
     snap |-> Bindings(st1, w.nq),
     slots |-> vs, heap |-> Len(st1),
     held |-> [i \in 1..Len(vs) |-> w.st[vs[i].id]]]

\* A plausible slip in clauses.Call: the clause's own variables are the slots
\* ("vars := c.vars").
runAltShared(th, w) ==
    Then(reset(th.a, w.st), LAMBDA st1 :
    Then(Len(w.tr) + 1, LAMBDA fid :
        exec([pc |-> th.c.bytecode, xr |-> th.c.xrTable, vars |-> th.c.vars,
              k |-> th.k, args |-> th.args, astack |-> EmptyList, fid |-> fid],
             Log(WithSt(w, st1),
                 Alternative(th, WithSt(w, st1), st1, th.c.vars, fid)))))

\* ks[i] of clauses.Call: reset the assignment, make the clause's slots, run it.
runAlt(th, w) ==
    Then(reset(th.a, w.st), LAMBDA st1 :
    Then(Len(w.tr) + 1, LAMBDA fid :
    Then([i \in 1..Len(th.c.vars) |-> Variable(Len(st1) + i)], LAMBDA vs :
    Then(WithSt(w, NewVars(st1, Len(th.c.vars))), LAMBDA w1 :
        exec([pc |-> th.c.bytecode, xr |-> th.c.xrTable, vars |-> vs,
              k |-> th.k, args |-> th.args, astack |-> EmptyList, fid |-> fid],
             Log(w1, Alternative(th, w1, st1, vs, fid)))))))

\* The host function of the model: it records its call and then either calls its
\* continuation (fn = "call_k") or fails (fn = "fail").
hostFn(p, vs, k, w) ==
    Then(Log(w, [ev |-> "host", fn |-> p.fn, name |-> p.name,
                 vals |-> [i \in 1..Len(vs) |-> Expand(vs[i], w.st, MaxExpand)]]),
         LAMBDA w1 : IF p.fn = "fail" THEN Ret(Bool(FALSE), w1) ELSE InvokeK(k, w1))

\* A plausible slip in predicateN.Call: the host function gets its fresh variables
\* before they are unified with the arguments.
hostCallUnbound(p, args, k, w) ==
    Then([i \in 1..p.arity |-> Variable(Len(w.st) + i)], LAMBDA vs :
    Then(hostFn(p, vs, [kk |-> "hostk", k |-> k], WithSt(w, NewVars(w.st, p.arity))),
         LAMBDA h :
    Then(U(args, List(vs), h.w.st), LAMBDA r :
        IF r.div THEN Ret(Panic("stack overflow"), WithSt(h.w, r.st))
        ELSE IF ~r.ok THEN
            Ret(Error(PlainError("wrong number of arguments")), WithSt(h.w, r.st))
        ELSE Ret(h.p, WithSt(h.w, r.st)))))

\* A plausible slip in predicateN.Call: a list of the wrong length is a failure.
hostCallFalse(p, args, k, w) ==
    Then([i \in 1..p.arity |-> Variable(Len(w.st) + i)], LAMBDA vs :
    Then(U(args, List(vs), NewVars(w.st, p.arity)), LAMBDA r :
        IF r.div THEN Ret(Panic("stack overflow"), WithSt(w, r.st))
        ELSE IF ~r.ok THEN Ret(Bool(FALSE), WithSt(w, r.st))
        ELSE hostFn(p, vs, [kk |-> "hostk", k |-> k], WithSt(w, r.st))))

\* predicate0.Call .. predicate5.Call: the argument list is unified with a list of
\* arity fresh variables, and the host function gets them and its continuation.
hostCall(p, args, k, w) ==
    Then([i \in 1..p.arity |-> Variable(Len(w.st) + i)], LAMBDA vs :
    Then(U(args, List(vs), NewVars(w.st, p.arity)), LAMBDA r :
        IF r.div THEN Ret(Panic("stack overflow"), WithSt(w, r.st))
        ELSE IF ~r.ok THEN
            Ret(Error(PlainError("wrong number of arguments")), WithSt(w, r.st))
        ELSE hostFn(p, vs, [kk |-> "hostk", k |-> k], WithSt(w, r.st))))

\* procedure.Call.
Call(p, args, k, w) ==
    IF p.kind = "clauses" THEN clausesCall(p.cs, args, k, w)
    ELSE hostCall(p, args, k, w)

\* The func delayed by opCall (and the query's goal): arrive at the procedure.
runArrive(th, w) ==
    arrive(th.pf, th.args, th.k,
           IF th.k.kk = "kont"
           THEN Log(w, [ev |-> "dispatch", fid |-> th.k.fid, pf |-> th.pf,
                        after |-> CountOp(Instrs(th.k.pc), opCall)])
           ELSE w)

\* The func delayed by opCall's continuation: the rest of the tape, with args and
\* astack the fresh v.
runResume(th, w) ==
    exec([pc |-> th.pc, xr |-> th.xr, vars |-> th.vars, k |-> th.k,
          args |-> th.v, astack |-> th.v, fid |-> th.fid], w)

\* VM.Phrase(grBody, s0, s, k): a non-terminal is called with the two lists as
\* its last arguments, and a body that is not callable is an error.
Phrase(grBody, s0, s, k) ==
    IF grBody.t = "atom" THEN
        Delay(<< [th |-> "arrive", pf |-> procedureIndicator(grBody.name, 2),
                  args |-> List(<<s0, s>>), k |-> k] >>)
    ELSE IF grBody.t = "cmp" THEN
        Delay(<< [th |-> "arrive",
                  pf |-> procedureIndicator(grBody.functor, Len(grBody.args) + 2),
                  args |-> List(grBody.args \o <<s0, s>>), k |-> k] >>)
    ELSE Error(typeErrorCallable(grBody))

-----------------------------------------------------------------------------
(* Scenarios: the programs and queries the engine is run on.  A scenario   *)
(* is [name, setup, goal, nq, nvars, stopAt, unk]: the set-up operations   *)
(* (consult a clause, register a host predicate), the goal with its nq     *)
(* variables (variables 1..nq; the clauses' own variables follow, nvars in *)
(* all), the solution at which the callback stops the query (0: never),    *)
(* and the unknown flag.                                                   *)

V(i) == Variable(i)
Fact(t) == [op |-> "consult", term |-> t]
Neck(h, b) == Compound(":-", <<h, b>>)
Rule(h, b) == [op |-> "consult", term |-> Neck(h, b)]
And(x, y) == Compound(",", <<x, y>>)
Host(n, ar, fn) == [op |-> "register", name |-> n, arity |-> ar, fn |-> fn]
P1(f, x) == Compound(f, <<x>>)
L2(x, y) == Cons(x, Cons(y, EmptyList))

Scenario(nm, setup, gname, gargs, nq, nvars, stopAt, unk) ==
    [name |-> nm, setup |-> setup,
     goal |-> [pf |-> procedureIndicator(gname, Len(gargs)), args |-> gargs],
     nq |-> nq, nvars |-> nvars, stopAt |-> stopAt, unk |-> unk]

Consts == {Atom("a"), Atom("b"), Integer(1)}
Unknowns == {unknownError, unknownFail, unknownWarning}

\* A fact p(c1..cn) of constants, queried with n distinct variables.
FactScenarios ==
    { Scenario("fact",
               << Fact(IF n = 0 THEN Atom("p") ELSE Compound("p", cs)) >>,
               "p", [i \in 1..n |-> V(i)], n, n, 0, unknownError)
      : <<n, cs>> \in UNION { {<<n, cs>> : cs \in [1..n -> Consts]}
                                     : n \in 0..MaxFactArity } }

\* p(1). p(2). p(3).   ?- p(X).
P123Scenarios ==
    { Scenario("p123",
               << Fact(P1("p", Integer(1))), Fact(P1("p", Integer(2))),
                  Fact(P1("p", Integer(3))) >>,
               "p", <<V(1)>>, 1, 1, stop, unknownError) : stop \in 0..3 }

AppendProgram ==
    << Fact(Compound("append", <<EmptyList, V(3), V(3)>>)),
       Rule(Compound("append", <<Cons(V(4), V(5)), V(6), Cons(V(4), V(7))>>),
            Compound("append", <<V(5), V(6), V(7)>>)) >>

\* ?- append(X, Y, [1,2]).   and   ?- append([1,2], [3,4], X).
AppendScenarios ==
    { Scenario("append_split", AppendProgram, "append",
               <<V(1), V(2), L2(Integer(1), Integer(2))>>, 2, 7, stop, unknownError)
      : stop \in 0..3 }
    \cup
    { Scenario("append_join", AppendProgram, "append",
               <<L2(Integer(1), Integer(2)), L2(Integer(3), Integer(4)), V(1)>>,
               1, 7, 0, unknownError) }

\* q(X,Y) :- p(X), r(Y).  p(1). p(2).  r(a). r(b).   ?- q(X, Y).
ConjScenarios ==
    { Scenario("conj",
               << Rule(Compound("q", <<V(3), V(4)>>),
                       And(P1("p", V(3)), P1("r", V(4)))),
                  Fact(P1("p", Integer(1))), Fact(P1("p", Integer(2))),
                  Fact(P1("r", Atom("a"))), Fact(P1("r", Atom("b"))) >>,
               "q", <<V(1), V(2)>>, 2, 4, stop, unknownError) : stop \in 0..4 }

\* p(a, c).  [p(b, c).]   ?- p(X, b).      and   p(a). p(b).  ?- p(c).
HeadFailScenarios ==
    { Scenario("headfail1", << Fact(Compound("p", <<Atom("a"), Atom("c")>>)) >>,
               "p", <<V(1), Atom("b")>>, 1, 1, 0, unknownError),
      Scenario("headfail2",
               << Fact(Compound("p", <<Atom("a"), Atom("c")>>)),
                  Fact(Compound("p", <<Atom("b"), Atom("c")>>)) >>,
               "p", <<V(1), Atom("b")>>, 1, 1, 0, unknownError),
      Scenario("nomatch",
               << Fact(P1("p", Atom("a"))), Fact(P1("p", Atom("b"))) >>,
               "p", <<Atom("c")>>, 0, 0, 0, unknownError) }

\* t :- log(1), log(2), g.   with a trailing goal g that succeeds once, succeeds
\* twice, fails (a host predicate that fails, no matching clause, an unknown
\* procedure), or raises.
LogRule == Rule(Atom("t"), And(P1("log", Integer(1)),
                               And(P1("log", Integer(2)), P1("g", Atom("x")))))
LogScenarios ==
    { Scenario("log", << Host("log", 1, "call_k"), LogRule >> \o g,
               "t", <<>>, 0, 0, stop, unk)
      : <<g, stop, unk>> \in
          { << <<Fact(P1("g", Atom("x")))>>, 0, unknownError >>,
            << <<Fact(P1("g", Atom("x")))>>, 1, unknownError >>,
            << <<Fact(P1("g", Atom("x"))), Fact(P1("g", V(1)))>>, 0, unknownError >>,
            << <<Fact(P1("g", Atom("y")))>>, 0, unknownError >>,
            << <<Host("g", 1, "fail")>>, 0, unknownError >>,
            << <<Host("g", 1, "call_k"), Fact(Atom("t"))>>, 0, unknownError >>,
            << <<>>, 0, unknownError >>,
            << <<>>, 0, unknownFail >>,
            << <<>>, 0, unknownWarning >> } }

\* Calls of procedures that are and are not in the table, under each unknown flag.
UnknownScenarios ==
    { Scenario("undef", << >>, "undef", <<>>, 0, 0, 0, unk) : unk \in Unknowns }
    \cup
    { Scenario("undef1", << Fact(P1("foo", Atom("a"))) >>, "foo",
               <<V(1), V(2)>>, 2, 2, 0, unk) : unk \in Unknowns }
    \cup
    { Scenario("undef_body",
               << Rule(P1("t", V(2)), And(P1("foo", V(2)), Atom("undef"))),
                  Fact(P1("foo", Atom("a"))), Fact(P1("t", Atom("z"))) >>,
               "t", <<V(1)>>, 1, 2, 0, unk) : unk \in Unknowns }

\* A host predicate h of arity n called with a list of len arguments:
\* e.arrive(h/n, [X1, b, X2, b, ...], k), whatever len is.
HostArgs(len) == [i \in 1..len |-> IF i % 2 = 1 THEN V((i + 1) \div 2) ELSE Atom("b")]
HostArityScenarios ==
    { [Scenario("hostarity", << Host("h", n, fn) >>, "h", HostArgs(len),
                (len + 1) \div 2, (len + 1) \div 2, 0, unknownError)
         EXCEPT !.goal.pf = procedureIndicator("h", n)]
      : <<n, len, fn>> \in (0..MaxHostArity) \X (0..(MaxHostArity + 1))
                            \X {"call_k", "fail"} }

\* Sequences of Register1 and Register2 calls on a zero-value Engine, over two
\* names, two arities and two host functions; then ?- h(X).
RegOps ==
    { Host("h", 1, "call_k"), Host("h", 1, "fail"), Host("h", 2, "call_k"),
      Host("h", 2, "fail"), Host("g", 1, "call_k") }
RegScenarios ==
    { Scenario("reg", ops, "h", <<V(1)>>, 1, 1, 0, unknownFail)
      : ops \in UNION { [1..n -> RegOps] : n \in 1..MaxRegs } }

\* Procedures given as hand-written tapes: e.procedures[p/n] = clauses{{xrTable,
\* bytecode}}.  A tape is [xr, pc].
Install(nm, ar, tape) ==
    [op |-> "install", pi |-> procedureIndicator(nm, ar),
     cs |-> << [pf |-> procedureIndicator(nm, ar), raw |-> Nil, xrTable |-> tape.xr,
                vars |-> <<>>, bytecode |-> tape.pc] >>]
Tape(xr, pc) == [xr |-> xr, pc |-> pc]

\* Tapes that meet an opcode outside the eight defined ones (8 is the first, 255
\* the last) or that end before an exit, each with the arguments of the call
\* (arguments the head part of the tape accepts).
BadTapes ==
    { <<Tape(<<>>, pc), <<>>>> :
        pc \in { <<8>>, <<255>>, <<opVoid, 8, opExit>>, <<>>, <<opVoid>>, <<opEnter>>,
                 <<opEnter, 9>> } }
    \cup { <<Tape(<<procedureIndicator("q", 0)>>, pc), <<>>>> :
             pc \in { <<opEnter, opCall, 0>>, <<opEnter, opCall, 0, 8>> } }
    \cup { <<Tape(<<Atom("a")>>, <<opConst, 0>>), <<V(1)>>>>,
           <<Tape(<<Atom("a")>>, <<opConst, 0>>), <<Atom("a")>>>>,
           <<Tape(<<Atom("a")>>, <<opConst, 0, 8>>), <<V(1)>>>>,
           <<Tape(<<procedureIndicator("f", 1), Atom("a")>>,
                  <<opFunctor, 0, opConst, 1, opPop>>), <<V(1)>>>>,
           <<Tape(<<procedureIndicator("f", 1), Atom("a")>>,
                  <<opFunctor, 0, opConst, 1, opPop>>), <<P1("f", V(1))>>>> }
\* Head tapes with a pop that no functor precedes.
PopTapes ==
    { <<Tape(<<>>, <<opPop, opExit>>), <<>>>>,
      <<Tape(<<>>, <<opPop, opEnter, opExit>>), <<>>>>,
      <<Tape(<<Atom("a")>>, <<opConst, 0, opPop, opExit>>), <<V(1)>>>>,
      <<Tape(<<Atom("a")>>, <<opConst, 0, opPop, opExit>>), <<Atom("a")>>>>,
      <<Tape(<<procedureIndicator("f", 1), Atom("a")>>,
             <<opFunctor, 0, opConst, 1, opPop, opPop, opExit>>), <<V(1)>>>>,
      <<Tape(<<procedureIndicator("f", 1), Atom("a")>>,
             <<opFunctor, 0, opConst, 1, opPop, opPop, opExit>>), <<P1("f", Atom("a"))>>>> }
GoodTapes ==
    { <<Tape(<<>>, <<opExit>>), <<>>>>, <<Tape(<<>>, <<opVoid, opExit>>), <<>>>>,
      <<Tape(<<procedureIndicator("q", 0)>>, <<opEnter, opCall, 0, opExit>>), <<>>>> }

\* q.  p given by the tape.  ?- p(args).
TapeScenarios ==
    { Scenario(nt[1][1],
               << Fact(Atom("q")), Install("p", Len(nt[1][2][2]), nt[1][2][1]) >>,
               "p", nt[1][2][2], Len(nt[1][2][2]), Len(nt[1][2][2]), nt[2],
               unknownError)
      : nt \in (({"badtape"} \X BadTapes) \cup ({"poptape"} \X PopTapes)
                \cup ({"goodtape"} \X GoodTapes)) \X (0..1) }

\* walk([]).  walk([_|T]) :- walk(T).   ?- walk([a, ..., a]).
WalkScenarios ==
    { Scenario("walk",
               << Fact(P1("walk", EmptyList)),
                  Rule(P1("walk", Cons(V(1), V(2))), P1("walk", V(2))) >>,
               "walk", << List([i \in 1..n |-> Atom("a")]) >>, 0, 2, stop, unknownError)
      : n \in 0..MaxList, stop \in 0..1 }

\* Clauses with compound arguments in heads and in goals:
\*   p(f(a,b)).                                queried with f(X,Y), X, f(b,Y), f(X,X)
\*   p(g(f(a),b), c).                          queried with (g(X,Y), Z) and (g(f(X),Y), X)
\*   t(X) :- q(f(X, g(b)), X).  q(f(a,Y), a).  queried with t(X)
\*   p(f(a), b).                               queried with p(f(Z), Z)
F2(x, y) == Compound("f", <<x, y>>)
NestScenarios ==
    { Scenario("nest", << Fact(P1("p", F2(Atom("a"), Atom("b")))) >>, "p", <<q>>,
               2, 2, 0, unknownError)
      : q \in { F2(V(1), V(2)), V(1), F2(Atom("b"), V(2)), F2(V(1), V(1)) } }
    \cup
    { Scenario("nest2",
               << Fact(Compound("p", << Compound("g", <<P1("f", Atom("a")), Atom("b")>>),
                                        Atom("c") >>)) >>,
               "p", qs, 3, 3, 0, unknownError)
      : qs \in { << Compound("g", <<V(1), V(2)>>), V(3) >>,
                 << Compound("g", <<P1("f", V(1)), V(2)>>), V(1) >> } }
    \cup
    { Scenario("nest_body",
               << Rule(P1("t", V(2)),
                       Compound("q", << F2(V(2), P1("g", Atom("b"))), V(2) >>)),
                  Fact(Compound("q", << F2(Atom("a"), V(3)), Atom("a") >>)) >>,
               "t", <<V(1)>>, 1, 3, 0, unknownError),
      Scenario("nest_tail", << Fact(Compound("p", << P1("f", Atom("a")), Atom("b") >>)) >>,
               "p", << P1("f", V(1)), V(1) >>, 1, 1, 0, unknownError) }

\* A procedure that is in the table and has no clause, e.procedures[p/1] =
\* clauses{}, called by the query ?- p(X) and from the body of t(X) :- p(X), t(b),
\* under each unknown flag.
NoClause(nm, ar) == [op |-> "install", pi |-> procedureIndicator(nm, ar), cs |-> <<>>]
EmptyScenarios ==
    { Scenario("empty", << NoClause("p", 1) >>, "p", <<V(1)>>, 1, 1, stop, unk)
      : <<stop, unk>> \in (0..1) \X Unknowns }
    \cup
    { Scenario("empty_body",
               << NoClause("p", 1), Rule(P1("t", V(2)), P1("p", V(2))),
                  Fact(P1("t", Atom("b"))) >>,
               "t", <<V(1)>>, 1, 2, stop, unk)
      : <<stop, unk>> \in (0..2) \X Unknowns }

\* vm.Phrase(GRBody, S0, S, Success) on a VM with a/2 registered or with no
\* procedure at all: the goal phrase(GRBody, S0, S).  Success is the callback that
\* stops at the first solution.
PhraseScenarios ==
    { Scenario("phrase", setup, "phrase", <<gr, s0, V(2)>>, 2, 2, 1, unknownError)
      : <<setup, gr, s0>> \in
            { <<>>, << Host("a", 2, "call_k") >>, << Host("a", 2, "fail") >> }
            \X { Atom("a"), P1("a", Atom("x")), Integer(0), Float(1) }
            \X { V(1), Cons(Atom("x"), EmptyList) } }

Scenarios ==
    FactScenarios \cup P123Scenarios \cup AppendScenarios \cup ConjScenarios
    \cup HeadFailScenarios \cup LogScenarios \cup UnknownScenarios
    \cup HostArityScenarios \cup RegScenarios \cup TapeScenarios \cup WalkScenarios
    \cup PhraseScenarios \cup NestScenarios \cup EmptyScenarios

-----------------------------------------------------------------------------
(* The engine's specification.                                             *)

Top == stack[Len(stack)]
Popped == SubSeq(stack, 1, Len(stack) - 1)
World == [st |-> store, tr |-> trace, nq |-> scn.nq, base |-> Len(stack) - 1,
          stopAt |-> scn.stopAt]

NoHarness == /\ cIn = Nil /\ cOut = Nil /\ uIn = Nil /\ uOut = Nil /\ repl = Nil

Init ==
    /\ scn \in Scenarios
    /\ phase = "setup"
    /\ setupIdx = 0
    /\ procedures = [isNil |-> TRUE, tab |-> [x \in {} |-> Nil]]
    /\ unknown = scn.unk
    /\ stack = <<>>
    /\ store = NewVars(<<>>, scn.nvars)
    /\ trace = <<>>
    /\ result = Nil
    /\ NoHarness

HeadOf(t) == IF t.t = "cmp" /\ t.functor = ":-" /\ Len(t.args) = 2 THEN t.args[1] ELSE t
IndicatorOf(h) ==
    IF h.t = "cmp" THEN procedureIndicator(h.functor, Len(h.args))
    ELSE procedureIndicator(h.name, 0)

\* A plausible slip in RegisterN: the map is made anew at every call.
PutFresh(pi, p) ==
    [isNil |-> FALSE, tab |-> [x \in {pi} |-> p]]

\* The table with pi mapped to p.
Put(pi, p) ==
    [isNil |-> FALSE,
     tab |-> [x \in (IF procedures.isNil THEN {} ELSE DOMAIN procedures.tab) \cup {pi}
                |-> IF x = pi THEN p ELSE procedures.tab[x]]]

\* The clause list of pi with c appended.
Appended(pi, c) ==
    [kind |-> "clauses",
     cs |-> IF Lookup(pi) # Nil /\ Lookup(pi).kind = "clauses"
            THEN Append(Lookup(pi).cs, c) ELSE <<c>>]

Consulted(r, pi) ==
    /\ r.err = Nil /\ ~r.panic
    /\ procedures' = Put(pi, Appended(pi, [r.c EXCEPT !.pf = pi]))

\* consult: compile the clause and append it to the clauses of its indicator.
Consult ==
    /\ phase = "setup" /\ setupIdx < Len(scn.setup)
    /\ scn.setup[setupIdx + 1].op = "consult"
    /\ Consulted(compile(EmptyClause, scn.setup[setupIdx + 1].term, store),
                 IndicatorOf(HeadOf(scn.setup[setupIdx + 1].term)))
    /\ setupIdx' = setupIdx + 1
    /\ UNCHANGED <<scn, phase, unknown, stack, store, trace, result, cIn, cOut, uIn, uOut, repl>>

\* e.procedures[pi] = clauses{c}, c written by hand, or e.procedures[pi] = clauses{}.
InstallTape ==
    /\ phase = "setup" /\ setupIdx < Len(scn.setup)
    /\ scn.setup[setupIdx + 1].op = "install"
    /\ procedures' = Put(scn.setup[setupIdx + 1].pi,
                         [kind |-> "clauses", cs |-> scn.setup[setupIdx + 1].cs])
    /\ setupIdx' = setupIdx + 1
    /\ UNCHANGED <<scn, phase, unknown, stack, store, trace, result, cIn, cOut, uIn, uOut, repl>>

\* Engine.Register0 .. Register5.
Register ==
    /\ phase = "setup" /\ setupIdx < Len(scn.setup)
    /\ LET op == scn.setup[setupIdx + 1] IN
           /\ op.op = "register"
           /\ procedures' = Put(procedureIndicator(op.name, op.arity),
                                [kind |-> "host", arity |-> op.arity, fn |-> op.fn,
                                 name |-> op.name])
    /\ setupIdx' = setupIdx + 1
    /\ UNCHANGED <<scn, phase, unknown, stack, store, trace, result, cIn, cOut, uIn, uOut, repl>>

\* The query: the Promise that arrives at the goal with the callback as continuation.
Query ==
    /\ phase = "setup" /\ setupIdx = Len(scn.setup)
    /\ scn.name # "phrase"
    /\ phase' = "running"
    /\ stack' = << Delay(<< [th |-> "arrive", pf |-> scn.goal.pf,
                             args |-> List(scn.goal.args), k |-> [kk |-> "top"]] >>) >>
    /\ UNCHANGED <<scn, setupIdx, procedures, unknown, store, trace, result,
                   cIn, cOut, uIn, uOut, repl>>

\* vm.Phrase(grBody, s0, s, Success, nil), about to be forced.
PhraseQuery ==
    /\ phase = "setup" /\ setupIdx = Len(scn.setup)
    /\ scn.name = "phrase"
    /\ phase' = "running"
    /\ stack' = << Phrase(scn.goal.args[1], scn.goal.args[2], scn.goal.args[3],
                          [kk |-> "top"]) >>
    /\ UNCHANGED <<scn, setupIdx, procedures, unknown, store, trace, result,
                   cIn, cOut, uIn, uOut, repl>>

Finish(ok, err) ==
    /\ phase' = "done"
    /\ result' = [ok |-> ok, err |-> err]

\* Promise.Force, one turn of its loop: the top Promise is an error.
ForceError ==
    /\ phase = "running" /\ Top.pk \in {"error", "panic"}
    /\ Finish(FALSE, IF Top.pk = "error" THEN Top.err
                     ELSE [kind |-> "panic", msg |-> Top.why, culprit |-> Nil])
    /\ stack' = Popped
    /\ UNCHANGED <<scn, setupIdx, procedures, unknown, store, trace, cIn, cOut, uIn, uOut, repl>>

\* ... the top Promise is true: Force returns true.
ForceTrue ==
    /\ phase = "running" /\ Top.pk = "bool" /\ Top.ok
    /\ Finish(TRUE, Nil)
    /\ stack' = Popped
    /\ UNCHANGED <<scn, setupIdx, procedures, unknown, store, trace, cIn, cOut, uIn, uOut, repl>>

\* ... the top Promise is false: it is dropped, and Force returns false when
\* nothing is left.
ForceFalse ==
    /\ phase = "running" /\ Top.pk = "bool" /\ ~Top.ok
    /\ stack' = Popped
    /\ trace' = Append(trace, [ev |-> "false", h |-> Len(Popped),
                               snap |-> Bindings(store, scn.nq)])
    /\ IF Len(Popped) = 0 THEN Finish(FALSE, Nil) ELSE UNCHANGED <<phase, result>>
    /\ UNCHANGED <<scn, setupIdx, procedures, unknown, store, cIn, cOut, uIn, uOut, repl>>

\* ... the top Promise is delayed: its first func is run (r is what it returns) and
\* the result is pushed above the Delay of the remaining funcs.
Delayed(kind) ==
    /\ phase = "running" /\ Top.pk = "delay" /\ Len(Top.delayed) > 0
    /\ Top.delayed[1].th = kind

Push(r) ==
    /\ stack' = Popped
                \o (IF Len(Top.delayed) > 1 THEN <<Delay(Tail(Top.delayed))>> ELSE <<>>)
                \o <<r.p>>
    /\ store' = r.w.st
    /\ trace' = r.w.tr
    /\ UNCHANGED <<scn, phase, setupIdx, procedures, unknown, result, cIn, cOut, uIn, uOut, repl>>

ForceArrive == Delayed("arrive") /\ Push(runArrive(Top.delayed[1], World))
ForceCall ==
    /\ Delayed("pcall")
    /\ Push(Call(procedures.tab[Top.delayed[1].pi], Top.delayed[1].args,
                 Top.delayed[1].k, World))
ForceAlt == Delayed("alt") /\ Push(runAlt(Top.delayed[1], World))
ForceResume == Delayed("resume") /\ Push(runResume(Top.delayed[1], World))
ForceK == Delayed("k") /\ Push(InvokeK(Top.delayed[1].k, World))

Next ==
    \/ Consult \/ Register \/ InstallTape \/ Query \/ PhraseQuery
    \/ ForceError \/ ForceTrue \/ ForceFalse
    \/ ForceArrive \/ ForceCall \/ ForceAlt \/ ForceResume \/ ForceK

Spec == Init /\ [][Next]_vars

\* No unification of the engine's runs hits the depth bound.
NoOverflow == result # Nil => (result.err = Nil \/ result.err.kind # "panic")

-----------------------------------------------------------------------------
(* The compiler on its own: compile applied to one clause term.  cIn is    *)
(* the term and the heap it lives in, cOut what compile returns.           *)

Idle ==
    /\ scn = Nil /\ setupIdx = 0
    /\ procedures = [isNil |-> TRUE, tab |-> [x \in {} |-> Nil]]
    /\ unknown = unknownError
    /\ stack = <<>> /\ store = <<>> /\ trace = <<>> /\ result = Nil

\* Clause terms with many arguments: the sizes around the width of a byte.
WideSizes == {n \in 1..MaxWide : n <= 2 \/ n >= MaxWide - 4}
WideConsts(n) == Compound("p", [i \in 1..n |-> Integer(i - 1)])
WideVars(n) == Compound("p", [i \in 1..n |-> V(i)])
WideInputs ==
    { [term |-> WideConsts(n), st |-> <<>>] : n \in WideSizes }
    \cup { [term |-> WideVars(n), st |-> NewVars(<<>>, n)] : n \in WideSizes }
    \cup { [term |-> Neck(Atom("h"), WideConsts(n)), st |-> <<>>] : n \in WideSizes }

\* Small clause terms over a heap of an unbound X (1), an unbound Y (2) and a
\* variable bound to p(a) (3): every kind of head and of body, the ones compile
\* rejects included.
SmallHeap == << Nil, Nil, P1("p", Atom("a")) >>
SmallHeads ==
    { Atom("p"), P1("p", Atom("a")), P1("p", V(1)),
      Compound("p", <<V(1), Atom("a")>>), Compound("p", <<Atom("a"), Atom("a")>>),
      Compound("p", <<P1("f", V(1)), Integer(3), V(2), V(1)>>),
      P1("p", Float(1)), P1("p", Nil), Integer(1), V(1), V(3) }
SmallGoals ==
    { Atom("q"), P1("q", V(1)), Compound("r", <<V(2), Integer(3)>>), Integer(1), V(1) }
SmallBodies ==
    SmallGoals \cup { And(g, h) : g \in SmallGoals, h \in {Atom("q"), P1("q", V(1))} }
    \cup { And(Atom("q"), And(P1("q", V(1)), Atom("s"))),
           And(And(Atom("q"), Atom("s")), Atom("q")),
           And(Atom("q"), Integer(1)), And(P1("q", V(1)), And(Atom("s"), V(2))),
           And(Atom("q"), Float(1)) }
SmallInputs ==
    { [term |-> h, st |-> SmallHeap] : h \in SmallHeads }
    \cup { [term |-> Neck(h, b), st |-> SmallHeap] : h \in SmallHeads, b \in SmallBodies }
    \cup { [term |-> Compound(":-", as), st |-> SmallHeap] :
             as \in { <<>>, <<Atom("g")>>, <<Atom("h"), Atom("g"), Atom("s")>> } }

CompileInputs == WideInputs \cup SmallInputs

InitCompile ==
    /\ Idle
    /\ phase = "compile"
    /\ cIn \in CompileInputs
    /\ cOut = Nil
    /\ uIn = Nil /\ uOut = Nil /\ repl = Nil

\* c := &clause{}; err := c.compile(t)
CompileStep ==
    /\ phase = "compile"
    /\ cOut' = compile(EmptyClause, cIn.term, cIn.st)
    /\ phase' = "compiled"
    /\ UNCHANGED <<scn, setupIdx, procedures, unknown, stack, store, trace, result,
                   cIn, uIn, uOut, repl>>

SpecCompile == InitCompile /\ [][CompileStep]_vars

-----------------------------------------------------------------------------
(* Compound.Unify on its own.  uIn is the receiver a (a compound), the     *)
(* other term b, the occurs-check flag and the environment; uOut is what   *)
(* the call returns.                                                       *)

UVars == {V(1), V(2), V(3)}
ULeaves == UVars \cup {Atom("a"), Atom("b")}
UCompounds ==
    { P1("f", x) : x \in ULeaves }
    \cup { Compound("f", <<x, y>>) : x \in ULeaves, y \in ULeaves }
    \cup { P1("g", V(1)), Compound("f", <<V(1), P1("f", V(1))>>),
           Compound("f", <<P1("f", V(2)), V(2)>>),
           Compound("f", <<V(1), V(2), V(1)>>),
           Compound("f", <<P1("f", V(1)), P1("f", V(2)), Atom("a")>>),
           Compound("f", <<V(1), Atom("a"), V(2)>>),
           Compound("f", <<Atom("b"), Atom("b"), Atom("a")>>) }
UTerms == ULeaves \cup UCompounds \cup {Integer(1), Float(1)}

\* Environments: no binding, chains of variables, bindings to atoms and compounds.
UEnvs ==
    { <<Nil, Nil, Nil>>,
      <<V(2), Nil, Nil>>,
      <<V(2), V(3), Nil>>,
      <<Nil, Atom("a"), Nil>>,
      <<P1("f", V(2)), Nil, Atom("b")>>,
      <<Nil, Compound("f", <<V(3), Atom("a")>>), Nil>> }

InitUnify ==
    /\ Idle
    /\ phase = "unify"
    /\ uIn \in { [a |-> a, b |-> b, oc |-> oc, st |-> st] :
                   a \in UCompounds, b \in UTerms, oc \in BOOLEAN, st \in UEnvs }
    /\ uOut = Nil
    /\ cIn = Nil /\ cOut = Nil /\ repl = Nil

\* env, ok = a.Unify(b, occursCheck, env)
UnifyStep ==
    /\ phase = "unify"
    /\ uOut' = CompoundUnify(uIn.a, uIn.b, uIn.oc, uIn.st, MaxUnifyDepth)
    /\ phase' = "unified"
    /\ UNCHANGED <<scn, setupIdx, procedures, unknown, stack, store, trace, result,
                   cIn, cOut, uIn, repl>>

SpecUnify == InitUnify /\ [][UnifyStep]_vars

-----------------------------------------------------------------------------
(* The top level, cmd/1pl: main's loop over handleLine.  The terminal, the *)
(* parser and the solution stream are its collaborators: what they return  *)
(* is chosen freely (a line or a read error, a parsed query or end of      *)
(* input or another error, a stream of 0..MaxSols solutions that may end   *)
(* in an error, writes that may fail).  repl is                            *)
(*   [pc, buf, prompt, sols, exists, r,          the program's state       *)
(*    lines, queries, out, logged]               what went in and out      *)
(* where lines are the lines read so far, queries the texts handed to the  *)
(* parser with its answers, out what the current call of handleLine wrote  *)
(* to the terminal and logged how many messages it logged.  sols is Nil or *)
(* [left, fails, err, closed, nexts, got]: the solutions left, whether the *)
(* stream fails after them, the error it reports, and how often it was     *)
(* closed, asked for a solution and gave one.                              *)

prompt == "?- "
contPrompt == "|- "

Lines == {"p(X", ")."}
Keys == {";", ".", "x"}

InitRepl ==
    /\ Idle
    /\ phase = "repl"
    /\ cIn = Nil /\ cOut = Nil /\ uIn = Nil /\ uOut = Nil
    /\ repl = [pc |-> "ReadLine", buf |-> <<>>, prompt |-> prompt, sols |-> Nil,
               exists |-> FALSE, r |-> "", lines |-> <<>>, queries |-> <<>>,
               out |-> <<>>, logged |-> 0]

EngineIdle ==
    UNCHANGED <<scn, phase, setupIdx, procedures, unknown, stack, store, trace, result,
                cIn, cOut, uIn, uOut>>

\* A return of handleLine after "defer sols.Close()": the stream is closed and
\* main goes round its loop (err = nil) or panics (log.Panic(err)).
Returned(st, failed) ==
    [st EXCEPT !.pc = IF failed THEN "panic" ELSE "ReadLine", !.sols.closed = @ + 1]

\* A plausible slip in handleLine: the default case logs and returns without
\* buf.Reset().
queriedKeepRejected(buf, err) ==
    IF err = "nil" THEN [buf |-> <<>>, prompt |-> prompt]
    ELSE IF err = "EOF" THEN [buf |-> buf, prompt |-> contPrompt]
    ELSE [buf |-> buf, prompt |-> prompt]

\* The switch on QueryContext's error: what it makes of the buffer and the prompt.
queried(buf, err) ==
    IF err = "nil" THEN [buf |-> <<>>, prompt |-> prompt]
    ELSE IF err = "EOF" THEN [buf |-> buf, prompt |-> contPrompt]
    ELSE [buf |-> <<>>, prompt |-> prompt]

\* line, err := t.ReadLine(); buf.WriteString(line); buf.WriteString("\n")
ReadLine ==
    /\ phase = "repl" /\ repl.pc = "ReadLine" /\ Len(repl.lines) < MaxLines
    /\ \E line \in Lines :
          repl' = [repl EXCEPT !.pc = "QueryContext", !.buf = Append(@, line),
                               !.lines = Append(@, line), !.sols = Nil,
                               !.exists = FALSE, !.r = "", !.out = <<>>, !.logged = 0]
    /\ EngineIdle

\* ... t.ReadLine fails: handleLine returns the error, and main returns on io.EOF
\* and panics on any other.
ReadLineFails ==
    /\ phase = "repl" /\ repl.pc = "ReadLine"
    /\ \E err \in {"EOF", "err"} :
          repl' = [repl EXCEPT !.pc = IF err = "EOF" THEN "exit" ELSE "panic"]
    /\ EngineIdle

\* sols, err := p.QueryContext(ctx, buf.String()) and the switch on err.
QueryContext ==
    /\ phase = "repl" /\ repl.pc = "QueryContext"
    /\ \E err \in {"nil", "EOF", "err"}, n \in 0..MaxSols, fails \in BOOLEAN :
          /\ err # "nil" => (n = 0 /\ ~fails)
          /\ repl' = [repl EXCEPT
                 !.queries = Append(@, [text |-> repl.buf, err |-> err]),
                 !.buf = queried(repl.buf, err).buf,
                 !.prompt = queried(repl.buf, err).prompt,
                 !.logged = IF err = "err" THEN @ + 1 ELSE @,
                 !.sols = IF err = "nil"
                          THEN [left |-> n, fails |-> fails, err |-> FALSE,
                                closed |-> 0, nexts |-> 0, got |-> 0]
                          ELSE Nil,
                 !.pc = IF err = "nil" THEN "Next" ELSE "ReadLine"]
    /\ EngineIdle

\* for sols.Next() { exists = true ...
SolsNext ==
    /\ phase = "repl" /\ repl.pc = "Next"
    /\ repl' = IF repl.sols.left > 0
               THEN [repl EXCEPT !.sols.nexts = @ + 1, !.sols.left = @ - 1,
                                 !.sols.got = @ + 1, !.exists = TRUE, !.pc = "Write"]
               ELSE [repl EXCEPT !.sols.nexts = @ + 1, !.sols.err = repl.sols.fails,
                                 !.pc = "Err"]
    /\ EngineIdle

\* ... the solution is formatted and written to the terminal (p.Write or t.Write
\* may fail: return err).
WriteSolution ==
    /\ phase = "repl" /\ repl.pc = "Write"
    /\ \E ok \in BOOLEAN :
          repl' = IF ok THEN [repl EXCEPT !.out = Append(@, "sol"), !.pc = "ReadRune"]
                  ELSE Returned(repl, TRUE)
    /\ EngineIdle

\* r, _, err := keys.ReadRune(); if r != ';' { r = '.' }
ReadRune ==
    /\ phase = "repl" /\ repl.pc = "ReadRune"
    /\ \/ \E key \in Keys :
             repl' = [repl EXCEPT !.r = IF key = ";" THEN ";" ELSE ".", !.pc = "Echo"]
       \/ repl' = Returned(repl, TRUE)
    /\ EngineIdle

\* fmt.Fprintf(t, "%s\n", string(r)); if r == '.' { break }
EchoRune ==
    /\ phase = "repl" /\ repl.pc = "Echo"
    /\ \E ok \in BOOLEAN :
          repl' = IF ok THEN [repl EXCEPT !.out = Append(@, repl.r),
                                          !.pc = IF repl.r = "." THEN "Err" ELSE "Next"]
                  ELSE Returned(repl, TRUE)
    /\ EngineIdle

\* if err := sols.Err(); err != nil { log.Print(err); return nil }
\* if !exists { fmt.Fprintf(t, "%t.\n", false) }; return nil
SolsErr ==
    /\ phase = "repl" /\ repl.pc = "Err"
    /\ \E ok \in BOOLEAN :
          repl' = IF repl.sols.err
                  THEN Returned([repl EXCEPT !.logged = @ + 1], FALSE)
                  ELSE IF repl.exists THEN Returned(repl, FALSE)
                  ELSE IF ok
                  THEN Returned([repl EXCEPT !.out = Append(@, "false.")], FALSE)
                  ELSE Returned(repl, TRUE)
    /\ EngineIdle

NextRepl ==
    \/ ReadLine \/ ReadLineFails \/ QueryContext \/ SolsNext \/ WriteSolution
    \/ ReadRune \/ EchoRune \/ SolsErr

SpecRepl == InitRepl /\ [][NextRepl]_vars

-----------------------------------------------------------------------------
(* Reading the trace.                                                      *)

Ev(e) == {i \in 1..Len(trace) : trace[i].ev = e}
Sols == [i \in 1..Cardinality(Ev("sol")) |->
           trace[CHOOSE j \in Ev("sol") : Cardinality({l \in Ev("sol") : l <= j}) = i].binds]
HostLog(nm) ==
    SelectSeq(trace, LAMBDA e : e.ev = "host" /\ e.name = nm)
Finished == phase = "done"
Failed == Finished /\ result = [ok |-> FALSE, err |-> Nil]

\* The goals of a body, left to right along its ','/2 spine.
RECURSIVE Goals(_)
Goals(body) ==
    IF body.t = "cmp" /\ body.functor = "," /\ Len(body.args) = 2
    THEN <<body.args[1]>> \o Goals(body.args[2])
    ELSE <<body>>

\* Every clause in the procedure table.
AllClauses ==
    UNION { {procedures.tab[pi].cs[i] : i \in 1..Len(procedures.tab[pi].cs)}
            : pi \in {x \in DOMAIN procedures.tab : procedures.tab[x].kind = "clauses"} }

-----------------------------------------------------------------------------
(* C1.  When alternative i+1 of a clause activation starts, the bindings   *)
(* of the query's variables are those seen when alternative i started:     *)
(* everything bound while alternative i ran, continuation goals included,  *)
(* has been undone.                                                        *)
C1_NextAlternativeSeesSameBindings ==
    \A i \in Ev("alt") : \A j \in Ev("alt") :
        (trace[i].aid = trace[j].aid /\ trace[j].idx = trace[i].idx + 1)
            => trace[j].snap = trace[i].snap

(* C2.  When a clause activation has failed (the Promise stack is back to  *)
(* the height it had under the activation), the query's variables are      *)
(* bound as they were when the activation started.                         *)
C2_FailedActivationRestoresBindings ==
    \A i \in Ev("act") : \A j \in Ev("false") :
        (/\ j > i
         /\ trace[j].h = trace[i].base
         /\ \A l \in Ev("false") : (i < l /\ l < j) => trace[l].h # trace[i].base)
            => trace[j].snap = trace[i].snap

-----------------------------------------------------------------------------
(* C3.  Alternatives are tried in the order the clauses are stored:        *)
(* alternative idx runs the idx-th clause, alternative idx+1 starts only   *)
(* after alternative idx was started and has yielded false, and p(1).      *)
(* p(2). p(3). queried with p(X) yields 1, 2, 3 in that order and nothing  *)
(* else.                                                                   *)
ActOf(j) == CHOOSE i \in Ev("act") : trace[i].aid = trace[j].aid

AltRunsClauseInOrder(j) ==
    /\ trace[j].idx \in 1..trace[ActOf(j)].n
    /\ \E pi \in DOMAIN procedures.tab :
          /\ procedures.tab[pi].kind = "clauses"
          /\ trace[ActOf(j)].pi = pi
          /\ trace[j].raw = procedures.tab[pi].cs[trace[j].idx].raw

AltAfterPreviousFailed(j) ==
    trace[j].idx > 1 =>
        \E i \in Ev("alt") :
            /\ i < j /\ trace[i].aid = trace[j].aid /\ trace[i].idx = trace[j].idx - 1
            /\ \E l \in Ev("false") :
                  i < l /\ l < j /\ trace[l].h = trace[ActOf(j)].base + 1

IsPrefix(xs, ys) == Len(xs) <= Len(ys) /\ xs = SubSeq(ys, 1, Len(xs))

P123Answers == << <<Integer(1)>>, <<Integer(2)>>, <<Integer(3)>> >>

C3_AlternativesInClauseOrder ==
    /\ \A j \in Ev("alt") : AltRunsClauseInOrder(j) /\ AltAfterPreviousFailed(j)
    /\ scn.name = "p123" =>
          /\ IsPrefix(Sols, P123Answers)
          /\ (Finished /\ scn.stopAt = 0) => (Sols = P123Answers /\ Failed)

C3_Witness ==
    /\ scn.name = "p123" /\ scn.stopAt = 0 /\ Failed /\ Len(Sols) = 3
    /\ \E j \in Ev("alt") : trace[j].idx = 3

-----------------------------------------------------------------------------
(* C4.  A body g1, ..., gn is compiled to exactly n call instructions, in  *)
(* the order g1..gn, each naming its goal's indicator, and then exit; at   *)
(* run time goal i+1 of an activation is dispatched only after goal i of   *)
(* the same activation, so the host predicate called by g1 has run before  *)
(* the one called by g2, whatever the later goals do.                      *)
CallsOf(c) == SelectSeq(Instrs(c.bytecode), LAMBDA ins : ins.op = opCall)

BodyCompiledInOrder(c) ==
    (c.raw.t = "cmp" /\ c.raw.functor = ":-") =>
        /\ Len(CallsOf(c)) = Len(Goals(c.raw.args[2]))
        /\ \A i \in 1..Len(CallsOf(c)) :
              c.xrTable[CallsOf(c)[i].arg + 1] = IndicatorOf(Goals(c.raw.args[2])[i])
        /\ Instrs(c.bytecode)[Len(Instrs(c.bytecode))].op = opExit
        /\ Instrs(c.bytecode)[Len(Instrs(c.bytecode)) - 1].op = opCall

\* The dispatch at j is of goal number ncalls - after of its activation.
GoalNo(j) == trace[trace[j].fid].ncalls - trace[j].after

DispatchedAfterPreviousGoal(j) ==
    GoalNo(j) > 1 =>
        \E i \in Ev("dispatch") :
            i < j /\ trace[i].fid = trace[j].fid /\ GoalNo(i) = GoalNo(j) - 1

LogBefore(h) ==
    \A n \in 1..Len(h) :
        h[n].vals = <<Integer(2)>> => (n > 1 /\ h[n - 1].vals = <<Integer(1)>>)

C4_GoalsLeftToRight ==
    /\ \A c \in AllClauses : BodyCompiledInOrder(c)
    /\ \A j \in Ev("dispatch") : DispatchedAfterPreviousGoal(j)
    /\ LogBefore(HostLog("log"))
    /\ (scn.name = "log" /\ Finished) =>
          \/ Len(HostLog("log")) >= 2
          \/ result.err # Nil

C4_Witness ==
    /\ scn.name = "log" /\ Failed /\ Len(Sols) = 0
    /\ [i \in 1..2 |-> HostLog("log")[i].vals] = << <<Integer(1)>>, <<Integer(2)>> >>
    /\ \E j \in Ev("dispatch") : GoalNo(j) = 3

-----------------------------------------------------------------------------
(* C5.  arrive on an indicator that is not in the procedure table returns  *)
(* the error existence_error(procedure, name/arity) when unknown is error, *)
(* false without a warning when unknown is fail, and false after exactly   *)
(* one warning record for that indicator when unknown is warning; what it  *)
(* returns holds no continuation, so k is not invoked.  On an indicator    *)
(* that is in the table it returns the Delay of the procedure's Call with  *)
(* the same arguments and continuation, whatever unknown is.               *)
ArriveAbsent(j) ==
    /\ unknown = unknownError =>
          /\ trace[j].p = Error(existenceErrorProcedure(
                 Compound("/", <<Atom(trace[j].pi.name), Integer(trace[j].pi.arity)>>)))
          /\ trace[j].warned = 0
    /\ unknown = unknownFail =>
          /\ trace[j].p = Bool(FALSE)
          /\ trace[j].warned = 0
    /\ unknown = unknownWarning =>
          /\ trace[j].p = Bool(FALSE)
          /\ trace[j].warned = 1
          /\ trace[j - 1] = [ev |-> "warn", pi |-> trace[j].pi]
    \* the callback was not run by the call
    /\ j + 1 \in 1..Len(trace) => trace[j + 1].ev \in {"false"}

ArrivePresent(j) ==
    /\ trace[j].p = Delay(<< [th |-> "pcall", pi |-> trace[j].pi,
                              args |-> trace[j].args, k |-> trace[j].k] >>)
    /\ trace[j].warned = 0

C5_UnknownProcedurePolicy ==
    /\ \A j \in Ev("arrive") :
          /\ trace[j].present = (trace[j].pi \in DOMAIN procedures.tab)
          /\ IF trace[j].present THEN ArrivePresent(j) ELSE ArriveAbsent(j)
    /\ Cardinality(Ev("warn")) =
          Cardinality({j \in Ev("arrive") : ~trace[j].present /\ unknown = unknownWarning})
    /\ (scn.name = "undef" /\ Finished) =>
          /\ Len(Sols) = 0
          /\ unknown = unknownError => (~result.ok /\ result.err.kind = "existence_error")
          /\ unknown # unknownError => Failed

C5_Witness ==
    /\ unknown = unknownWarning /\ Failed /\ Cardinality(Ev("warn")) = 1
    /\ \E j \in Ev("arrive") : ~trace[j].present /\ trace[j].warned = 1
    /\ \E j \in Ev("arrive") : trace[j].present

-----------------------------------------------------------------------------
(* C6.  With append([],L,L). and append([H|T],L,[H|R]) :- append(T,L,R).   *)
(* the query append(X,Y,[1,2]) yields (X=[],Y=[1,2]), (X=[1],Y=[2]),       *)
(* (X=[1,2],Y=[]) in this order, and then ends with false and no error.    *)
AppendAnswers ==
    << << EmptyList, L2(Integer(1), Integer(2)) >>,
       << Cons(Integer(1), EmptyList), Cons(Integer(2), EmptyList) >>,
       << L2(Integer(1), Integer(2)), EmptyList >> >>

C6_AppendSplits ==
    scn.name = "append_split" =>
        /\ IsPrefix(Sols, AppendAnswers)
        /\ Finished =>
              IF scn.stopAt = 0 THEN Sols = AppendAnswers /\ Failed
              ELSE Len(Sols) = scn.stopAt /\ result = [ok |-> TRUE, err |-> Nil]

C6_Witness ==
    scn.name = "append_split" /\ scn.stopAt = 0 /\ Failed /\ Len(Sols) = 3

-----------------------------------------------------------------------------
(* C7.  A fact p(c1, ..., cn) of constants, called with n distinct unbound *)
(* variables, invokes the continuation exactly once, with variable i bound *)
(* to ci.                                                                  *)
FactConstants == IF scn.setup[1].term.t = "cmp" THEN scn.setup[1].term.args ELSE <<>>

C7_FactRoundTrip ==
    scn.name = "fact" =>
        /\ Len(Sols) <= 1
        /\ \A i \in 1..Len(Sols) : Sols[i] = FactConstants
        /\ Finished => (Len(Sols) = 1 /\ Failed)

C7_Witness ==
    /\ scn.name = "fact" /\ Failed /\ Len(Sols) = 1
    /\ Sols[1] = <<Atom("a"), Atom("b"), Atom("a")>>

-----------------------------------------------------------------------------
(* C8.  When Compound.Unify returns (e', true) for a compound a, a term b, *)
(* either occurs-check flag and an environment e, a and b resolved under   *)
(* e' are structurally equal terms.                                        *)
C8_UnifySound ==
    (uOut # Nil /\ uOut.ok) =>
        Expand(uIn.a, uOut.st, MaxExpand) = Expand(uIn.b, uOut.st, MaxExpand)

C8_Witness ==
    /\ uOut # Nil /\ uOut.ok /\ uOut.st # uIn.st
    /\ uIn.b.t = "cmp" /\ Len(uIn.a.args) = 2
    /\ uIn.a # uIn.b
    /\ Expand(uIn.a, uIn.st, MaxExpand) # Expand(uIn.b, uIn.st, MaxExpand)

-----------------------------------------------------------------------------
(* C9.  Compiling a clause that needs more than 256 xrTable entries or     *)
(* more than 256 variables returns an error, and in the bytecode of a      *)
(* clause compiled without error every operand byte of a head argument is  *)
(* the index of the table entry or variable slot holding that argument: no *)
(* operand has wrapped around modulo 256.                                  *)
Compiled == cOut # Nil /\ ~cOut.panic

\* A head whose arguments are constants and variables: one instruction each.
FlatHead(t) ==
    /\ t.t = "cmp" /\ t.functor # ":-"
    /\ \A i \in 1..Len(t.args) : t.args[i].t \in {"var", "atom", "int", "float"}

OperandNames(c, ins, a) ==
    IF a.t = "var"
    THEN ins.op = opVar /\ ins.arg + 1 \in 1..Len(c.vars) /\ c.vars[ins.arg + 1] = a
    ELSE ins.op = opConst /\ ins.arg + 1 \in 1..Len(c.xrTable) /\ c.xrTable[ins.arg + 1] = a

C9_NoOperandWraps ==
    Compiled =>
        /\ (Len(cOut.c.xrTable) > ByteMod \/ Len(cOut.c.vars) > ByteMod) => cOut.err # Nil
        /\ (cOut.err = Nil /\ FlatHead(cOut.c.raw)) =>
              \A i \in 1..Len(cOut.c.raw.args) :
                  OperandNames(cOut.c, Instrs(cOut.c.bytecode)[i], cOut.c.raw.args[i])

-----------------------------------------------------------------------------
(* C10.  When compile returns no error the bytecode is not empty, its last *)
(* instruction is exit, no other instruction is exit, and enter occurs     *)
(* once when the clause has a body (compile hands compileClause the body   *)
(* of a ':-' term) and not at all when the clause is a fact.               *)
HasBody(t) == t.t = "cmp" /\ t.functor = ":-"

ShapedAsClause(ins, body) ==
    /\ Len(ins) > 0
    /\ ins[Len(ins)].op = opExit
    /\ CountOp(ins, opExit) = 1
    /\ CountOp(ins, opEnter) = IF body THEN 1 ELSE 0

C10_BytecodeEndsWithExit ==
    (Compiled /\ cOut.err = Nil) =>
        ShapedAsClause(Instrs(cOut.c.bytecode), HasBody(cOut.c.raw))

C10_Witness ==
    /\ Compiled /\ cOut.err = Nil /\ HasBody(cOut.c.raw)
    /\ Len(Goals(cOut.c.raw.args[2])) = 3
    /\ CountOp(Instrs(cOut.c.bytecode), opCall) = 3

-----------------------------------------------------------------------------
(* C11.  In every clause compiled without error, the operand of each const *)
(* instruction indexes an xrTable entry that is the atom, integer or float *)
(* it was compiled from, and the operand of each functor or call           *)
(* instruction indexes the procedure indicator (name and arity) of the     *)
(* compound or goal it was compiled from; so exec never finds an entry     *)
(* that is 'not a principal functor'.                                      *)

\* What each instruction of a clause term is compiled from, in tape order.
RECURSIVE FromArg(_)
RECURSIVE FromArgs(_, _, _)
FromArg(a) ==
    IF a.t = "var" THEN << [op |-> opVar, src |-> a] >>
    ELSE IF a.t = "cmp" THEN
        << [op |-> opFunctor, src |-> procedureIndicator(a.functor, Len(a.args))] >>
        \o FromArgs(a.args, 1, Len(a.args)) \o << [op |-> opPop, src |-> Nil] >>
    ELSE << [op |-> opConst, src |-> a] >>
FromArgs(as, lo, hi) ==
    IF lo > hi THEN <<>>
    ELSE IF lo = hi THEN FromArg(as[lo])
    ELSE FromArgs(as, lo, (lo + hi) \div 2) \o FromArgs(as, (lo + hi) \div 2 + 1, hi)

FromCallable(g) == IF g.t = "cmp" THEN FromArgs(g.args, 1, Len(g.args)) ELSE <<>>
FromGoal(g) ==
    FromCallable(g) \o << [op |-> opCall, src |-> IndicatorOf(g)] >>

RECURSIVE FromGoals(_, _)
FromGoals(gs, i) == IF i > Len(gs) THEN <<>> ELSE FromGoal(gs[i]) \o FromGoals(gs, i + 1)

FromClause(t) ==
    IF HasBody(t)
    THEN FromCallable(t.args[1]) \o << [op |-> opEnter, src |-> Nil] >>
         \o FromGoals(Goals(t.args[2]), 1) \o << [op |-> opExit, src |-> Nil] >>
    ELSE FromCallable(t) \o << [op |-> opExit, src |-> Nil] >>

OperandsMatch(c, ins, from) ==
    /\ Len(ins) = Len(from)
    /\ \A i \in 1..Len(ins) :
          /\ ins[i].op = from[i].op
          /\ ins[i].op \in {opConst, opFunctor, opCall} =>
                /\ ins[i].arg + 1 \in 1..Len(c.xrTable)
                /\ c.xrTable[ins[i].arg + 1] = from[i].src

C11_OperandKindsMatch ==
    (Compiled /\ cOut.err = Nil) =>
        OperandsMatch(cOut.c, Instrs(cOut.c.bytecode), FromClause(cOut.c.raw))

-----------------------------------------------------------------------------
(* C12.  A host predicate registered with arity n (0..5), called with an   *)
(* argument list whose length is not n, gives an error: the answer is not  *)
(* false and the host function is not run.  Called with n arguments, the   *)
(* host function is run once, with n variables unified one by one with     *)
(* the arguments.                                                          *)
HostArity == scn.goal.pf.arity
HostGiven == Len(scn.goal.args)

C12_HostArityIsChecked ==
    scn.name = "hostarity" =>
        IF HostGiven # HostArity
        THEN /\ Ev("host") = {}
             /\ Sols = <<>>
             /\ Finished =>
                   /\ ~result.ok
                   /\ result.err # Nil
                   /\ result.err.kind = "error"
        ELSE /\ Cardinality(Ev("host")) <= 1
             /\ \A j \in Ev("host") :
                   /\ Len(trace[j].vals) = HostArity
                   /\ \A i \in 1..HostArity :
                         trace[j].vals[i] = Expand(scn.goal.args[i], store, MaxExpand)
             /\ Finished =>
                   /\ Cardinality(Ev("host")) = 1
                   /\ result.err = Nil

C12_Witness ==
    /\ scn.name = "hostarity" /\ Finished
    /\ HostArity = 2 /\ HostGiven = 3
    /\ ~result.ok /\ result.err # Nil

-----------------------------------------------------------------------------
(* C13.  After any sequence of Register calls, starting from the Engine's  *)
(* zero value (a nil table), the procedure table maps every indicator to   *)
(* the host function of the latest registration of exactly that name and   *)
(* arity, and holds nothing else: a registration changes no other entry.   *)
RegisteredAs(op) == [kind |-> "host", arity |-> op.arity, fn |-> op.fn, name |-> op.name]

\* The registrations of pi among the first n set-up operations.
RegsOf(pi, n) ==
    {i \in 1..n : scn.setup[i].name = pi.name /\ scn.setup[i].arity = pi.arity}

LatestReg(pi, n) == CHOOSE i \in RegsOf(pi, n) : \A j \in RegsOf(pi, n) : j <= i

C13_RegisterReplacesOneEntry ==
    scn.name = "reg" =>
        /\ procedures.isNil = (setupIdx = 0)
        /\ \A pi \in {procedureIndicator(nm, ar) : nm \in {"h", "g"}, ar \in 0..2} :
              IF RegsOf(pi, setupIdx) = {} THEN Lookup(pi) = Nil
              ELSE Lookup(pi) = RegisteredAs(scn.setup[LatestReg(pi, setupIdx)])

C13_Witness ==
    /\ scn.name = "reg" /\ setupIdx = 3
    /\ scn.setup[1] = Host("h", 1, "call_k") /\ scn.setup[2] = Host("h", 2, "fail")
    /\ scn.setup[3] = Host("h", 1, "fail")
    /\ Lookup(procedureIndicator("h", 1)).fn = "fail"
    /\ Lookup(procedureIndicator("h", 2)).fn = "fail"

-----------------------------------------------------------------------------
(* C14.  exec on a tape whose next opcode is not one of the eight defined, *)
(* or that runs out of bytes before an exit, returns a system_error error: *)
(* the query ends with that error, neither true nor false, and the         *)
(* continuation is not run.                                                *)
C14_BadTapeIsSystemError ==
    (scn.name = "badtape" /\ Finished) =>
        /\ ~result.ok
        /\ result.err # Nil
        /\ result.err.kind = "system_error"
        /\ Sols = <<>>

-----------------------------------------------------------------------------
(* C18.  Running pop when astack is exhausted (the empty list: the head    *)
(* tape has a pop that no functor precedes) gives a system_error error,    *)
(* not the plain failure false.                                            *)
C18_PopOnEmptyAstackIsError ==
    (scn.name = "poptape" /\ Finished) =>
        /\ ~Failed
        /\ result.err # Nil
        /\ result.err.kind = "system_error"

-----------------------------------------------------------------------------
(* C15.  For a clause term that is a fact or a rule Head :- Body, built of *)
(* variables, atoms, integers, floats and compounds: compile returns       *)
(* type_error(callable, T) when the clause term, its head or a goal of the *)
(* body's conjunction spine is neither an atom nor a compound, T being the *)
(* first such term; it returns no error when the head and all goals are    *)
(* atoms or compounds.                                                     *)
Callable(x) == x.t \in {"atom", "cmp"}

RECURSIVE WellKinded(_)
WellKinded(x) ==
    IF x.t = "cmp" THEN \A i \in 1..Len(x.args) : WellKinded(x.args[i])
    ELSE x.t \in {"var", "atom", "int", "float"}

\* A fact, or a rule with the two arguments of ':-'.
ClauseShaped(t) == (t.t = "cmp" /\ t.functor = ":-") => Len(t.args) = 2

\* The clause term, or its head and the goals of its body, in order.
PartsOf(t) ==
    IF t.t = "cmp" /\ t.functor = ":-" THEN <<t.args[1]>> \o Goals(t.args[2]) ELSE <<t>>

NotCallableIn(ps) == {i \in 1..Len(ps) : ~Callable(ps[i])}

CallableOrTypeError(ps, out) ==
    /\ ~out.panic
    /\ IF NotCallableIn(ps) = {} THEN out.err = Nil
       ELSE out.err = typeErrorCallable(ps[LeastOr(NotCallableIn(ps), 0)])

C15_CallableOrTypeError ==
    (cOut # Nil /\ ClauseShaped(cOut.c.raw) /\ WellKinded(cOut.c.raw)) =>
        CallableOrTypeError(PartsOf(cOut.c.raw), cOut)

C15_Witness ==
    /\ cOut # Nil /\ HasBody(cOut.c.raw) /\ ClauseShaped(cOut.c.raw)
    /\ WellKinded(cOut.c.raw)
    /\ Len(PartsOf(cOut.c.raw)) = 3
    /\ Callable(PartsOf(cOut.c.raw)[2]) /\ PartsOf(cOut.c.raw)[3] = Integer(1)
    /\ cOut.err = typeErrorCallable(Integer(1))

-----------------------------------------------------------------------------
(* C16.  Every transfer of control to another goal is deferred: the call   *)
(* instruction, arrive, the resumption after a call and exit return a      *)
(* Delay.  So one step of Force enters at most one of: a procedure         *)
(* (arrive), a clause activation, a clause alternative, a host function,   *)
(* the query's callback, whatever the depth of the program's recursion;    *)
(* and the right-recursive walk over a list comes to its end: a run of it  *)
(* that is not finished has a step to take, and every step either enters   *)
(* one of the above or brings the run nearer to the query's callback.      *)
Transfers == {"arrive", "act", "alt", "host", "sol"}

OneTransferAStep ==
    Cardinality({i \in (Len(trace) + 1)..Len(trace') : trace'[i].ev \in Transfers}) <= 1

RECURSIVE Pending(_)
\* The continuations between k and the query's callback.
Pending(k) == IF k.kk \in {"done", "top"} THEN 0 ELSE 1 + Pending(k.k)

\* Force has a turn to take: a Promise is on its stack.
Forceable ==
    /\ phase = "running" /\ Len(stack) > 0
    /\ \/ Top.pk \in {"bool", "error", "panic"}
       \/ /\ Top.pk = "delay" /\ Len(Top.delayed) > 0
          /\ Top.delayed[1].th \in {"arrive", "pcall", "alt", "resume", "k"}

\* How far the top func is from the query's callback when it is an exit or a
\* resumption (the two funcs that enter nothing).
Unwinding ==
    IF Forceable /\ Top.pk = "delay" /\ Top.delayed[1].th \in {"k", "resume"}
    THEN 2 * Pending(Top.delayed[1].k) + (IF Top.delayed[1].th = "k" THEN 1 ELSE 2)
    ELSE 0

WalkAdvances ==
    scn.name = "walk" =>
        \/ Len(trace') > Len(trace)
        \/ phase' # phase
        \/ setupIdx' > setupIdx
        \/ Unwinding' < Unwinding

WalkNotStuck ==
    scn.name = "walk" => (Finished \/ phase = "setup" \/ Forceable)

C16_ControlIsDeferred == [][OneTransferAStep /\ WalkAdvances]_vars /\ []WalkNotStuck

C16_Witness ==
    /\ scn.name = "walk" /\ Finished /\ Len(Sols) = 1
    /\ Len(Goals(scn.goal.args[1])) = 1
    /\ Cardinality(Ev("arrive")) = MaxList + 1

-----------------------------------------------------------------------------
(* C17.  Phrase(GRBody, S0, S) with the atom a as its non-terminal arrives *)
(* at the procedure a/2 with the list [S0, S], and a/2 is entered once;    *)
(* when a/2 calls its continuation the query is true and has no error.  A  *)
(* grammar body that is not callable (a number) makes the forced Promise   *)
(* an error, not false, and no procedure is entered.                       *)
PhraseDone == scn.name = "phrase" /\ Finished
GRBody == scn.goal.args[1]
PhraseLists == <<scn.goal.args[2], scn.goal.args[3]>>

PhraseDispatched ==
    /\ Cardinality(Ev("arrive")) = 1
    /\ \A i \in Ev("arrive") :
          /\ trace[i].pi = procedureIndicator("a", 2)
          /\ trace[i].args = List(PhraseLists)
    /\ Lookup(procedureIndicator("a", 2)) # Nil =>
          /\ Cardinality(Ev("host")) = 1
          /\ Len(HostLog("a")) = 1
          /\ HostLog("a")[1].vals =
                 [i \in 1..2 |-> Expand(PhraseLists[i], store, MaxExpand)]
          /\ Lookup(procedureIndicator("a", 2)).fn = "call_k" =>
                 result = [ok |-> TRUE, err |-> Nil]

PhraseRefused ==
    /\ ~result.ok /\ result.err # Nil
    /\ Ev("arrive") = {} /\ Ev("host") = {}

-----------------------------------------------------------------------------
(* C19.  In every compiled clause functor and pop are balanced like        *)
(* brackets: no prefix of the tape has more pop than functor, and as many  *)
(* of each come before enter, before each call and before exit.  At run    *)
(* time, when the pop that matches a functor instruction has executed,     *)
(* astack is what it was before the functor instruction and args is the    *)
(* tail (Arest) of the list the functor instruction took its argument      *)
(* from.  So the fact p(f(a,b)) queried with p(f(X,Y)) gives X=a, Y=b.      *)
Open(ins, n) ==
    CountOp(SubSeq(ins, 1, n), opFunctor) - CountOp(SubSeq(ins, 1, n), opPop)

Balanced(ins) ==
    /\ \A n \in 0..Len(ins) : Open(ins, n) >= 0
    /\ \A n \in 1..Len(ins) :
          ins[n].op \in {opEnter, opCall, opExit} => Open(ins, n - 1) = 0

\* The scenario's procedures all come from the compiler.
ConsultedOnly == \A i \in 1..Len(scn.setup) : scn.setup[i].op # "install"

\* The functor and pop instructions of pop j's activation strictly between i and j.
Inside(i, j, e) ==
    Cardinality({n \in (i + 1)..(j - 1) :
                   trace[n].ev = e /\ trace[n].fid = trace[j].fid})

\* The functor instructions that pop j may close, the last of them being the one
\* it closes.
Openers(j) ==
    {i \in 1..(j - 1) : /\ trace[i].ev = "functor" /\ trace[i].fid = trace[j].fid
                        /\ Inside(i, j, "functor") = Inside(i, j, "pop")}

Opener(j) == CHOOSE i \in Openers(j) : \A n \in Openers(j) : n <= i

Same(x, y, st) == Expand(x, st, MaxExpand) = Expand(y, st, MaxExpand)

PopRestores(j) ==
    /\ Openers(j) # {}
    /\ Same(trace[j].astack, trace[Opener(j)].astack, trace[j].st)
    /\ Same(trace[j].args, trace[Opener(j)].arest, trace[j].st)

NestedFact == scn.name = "nest" /\ scn.goal.args = << F2(V(1), V(2)) >>

C19_FunctorPopBalanced ==
    ConsultedOnly =>
        /\ \A c \in AllClauses : Balanced(Instrs(c.bytecode))
        /\ \A j \in Ev("pop") : PopRestores(j)
        /\ (NestedFact /\ Finished) => Sols = << <<Atom("a"), Atom("b")>> >>

C19_Witness ==
    /\ scn.name = "nest2" /\ Finished /\ Len(Sols) = 1
    /\ Cardinality(Ev("pop")) = 2
    /\ \E j \in Ev("pop") : Inside(Opener(j), j, "pop") = 1

-----------------------------------------------------------------------------
(* C20.  Each alternative of each clause activation runs with slots of its *)
(* own, made when it starts and unbound then, one per variable of the      *)
(* clause: no slot of it is a slot of an earlier alternative, of the same  *)
(* activation or of another (a recursive one included).  The variables in  *)
(* the clause record are never bound.  Whatever is still to run for an     *)
(* alternative, the bytecode resumed after a call included, holds the      *)
(* slots the alternative started with.                                     *)
SlotIds(i) == {trace[i].slots[n].id : n \in 1..Len(trace[i].slots)}

OwnSlots(j) ==
    /\ Cardinality(SlotIds(j)) = Len(trace[j].slots)
    /\ \A n \in 1..Len(trace[j].slots) :
          /\ trace[j].slots[n].id > trace[j].heap
          /\ trace[j].held[n] = Nil
    /\ trace[j].raw # Nil =>
          Len(trace[j].slots) = Len(TermVars(trace[j].raw, <<>>))
    /\ \A i \in Ev("alt") : i < j => SlotIds(i) \cap SlotIds(j) = {}

\* The cells of the variables the scenario's clauses are written with.
ClauseRecordUnbound == \A i \in (scn.nq + 1)..scn.nvars : store[i] = Nil

\* The continuations of calls from k down to the query's callback.
RECURSIVE KontsOf(_)
KontsOf(k) ==
    IF k.kk \in {"done", "top"} THEN {}
    ELSE (IF k.kk = "kont" THEN {[fid |-> k.fid, slots |-> k.vars]} ELSE {})
         \cup KontsOf(k.k)

\* The funcs Force has still to run.
Thunks ==
    UNION { {stack[i].delayed[n] : n \in 1..Len(stack[i].delayed)}
            : i \in {x \in 1..Len(stack) : stack[x].pk = "delay"} }

\* The bytecode still to run, by alternative, with the slots it will run with.
ToResume ==
    UNION { KontsOf(th.k) \cup (IF th.th = "resume"
                                 THEN {[fid |-> th.fid, slots |-> th.vars]} ELSE {})
            : th \in Thunks }

C20_SlotsPerAlternative ==
    /\ \A j \in Ev("alt") : OwnSlots(j)
    /\ ClauseRecordUnbound
    /\ \A x \in ToResume : x.fid > 0 => x.slots = trace[x.fid].slots

C20_Witness ==
    /\ scn.name = "append_split" /\ Len(Sols) = 2
    /\ Cardinality({j \in Ev("alt") : Len(trace[j].slots) = 4}) >= 2
    /\ \E x \in ToResume : x.fid > 0 /\ Len(x.slots) = 4

-----------------------------------------------------------------------------
(* C21.  Compound.Unify of a compound a with a term b.  When b resolves to *)
(* a compound, the call succeeds only if both have the same functor and as *)
(* many arguments, and then exactly if every pair of arguments unifies,    *)
(* the pairs taken left to right and each given the environment the pair   *)
(* before it returned; at the first pair that does not unify the call      *)
(* returns what that pair returned, so no later pair is unified.  When b   *)
(* resolves to an unbound variable the result is that of unifying the      *)
(* variable with a.  When b resolves to an atom, an integer or a float the *)
(* call fails and returns the environment it was given.                    *)
Other == Resolve(uIn.b, uIn.st)

\* What the pair i of arguments returns when the pairs before it have unified,
\* and Nil when one of them has not.
RECURSIVE PairResult(_)
PairResult(i) ==
    IF i = 1
    THEN Unify(uIn.a.args[1], Other.args[1], uIn.oc, uIn.st, MaxUnifyDepth - 1)
    ELSE Then(PairResult(i - 1), LAMBDA r :
         IF r = Nil \/ ~r.ok THEN Nil
         ELSE Unify(uIn.a.args[i], Other.args[i], uIn.oc, r.st, MaxUnifyDepth - 1))

\* The first pair that does not unify; 0 when every pair unifies.
FirstFailing ==
    LeastOr({i \in 1..Len(uIn.a.args) : PairResult(i) # Nil /\ ~PairResult(i).ok}, 0)

SameShape == Other.functor = uIn.a.functor /\ Len(Other.args) = Len(uIn.a.args)

AgainstCompound ==
    /\ uOut.ok => SameShape
    /\ ~SameShape => uOut = UFail(uIn.st)
    /\ SameShape =>
          /\ uOut.ok <=> FirstFailing = 0
          /\ FirstFailing # 0 => uOut = PairResult(FirstFailing)
          /\ (FirstFailing = 0 /\ Len(uIn.a.args) > 0) =>
                 uOut = PairResult(Len(uIn.a.args))

C21_CompoundUnifyByCase ==
    uOut # Nil =>
        /\ Other.t = "cmp" => AgainstCompound
        /\ Other.t = "var" =>
              uOut = VariableUnify(Other, uIn.a, uIn.oc, uIn.st, MaxUnifyDepth - 1)
        /\ Other.t \in {"atom", "int", "float"} => uOut = UFail(uIn.st)

C21_Witness ==
    /\ uOut # Nil /\ Other.t = "cmp" /\ SameShape /\ Len(uIn.a.args) = 3
    /\ FirstFailing = 2 /\ ~uOut.ok /\ uOut.st # uIn.st
    /\ uIn.a.args[3] = V(2) /\ uOut.st[2] = Nil
    /\ Unify(uIn.a.args[3], Other.args[3], uIn.oc, uOut.st, MaxUnifyDepth).ok

-----------------------------------------------------------------------------
(* C23.  compile returns nil or an error on every term and never raises a  *)
(* host exception (index out of range).  A compound with functor ':-' and  *)
(* an arity other than 2 is compiled as an ordinary head or is rejected    *)
(* with an error: it is never read as a head and a body.                   *)
Directive(t) == t.t = "cmp" /\ t.functor = ":-" /\ Len(t.args) # 2

AsOrdinaryHead(t) == compileClause([EmptyClause EXCEPT !.raw = t], t, Nil)

C23_CompileNeverPanics ==
    cOut # Nil =>
        /\ ~cOut.panic
        /\ Directive(cOut.c.raw) =>
              (cOut.err # Nil \/ cOut = AsOrdinaryHead(cOut.c.raw))

-----------------------------------------------------------------------------
(* C24.  Calling an indicator that is in the procedure table with an empty *)
(* clause list is false: no error, no warning, and the continuation is not *)
(* invoked, whatever the unknown flag is.  The flag is consulted only for  *)
(* indicators that are not in the table.                                   *)
NoClauseProc == procedureIndicator("p", 1)

\* The calls of the procedure without clauses so far, and what follows each.
CallsOfNoClause == {i \in Ev("arrive") : trace[i].pi = NoClauseProc}

\* The events a call of p logs besides its own arrive: none of them is a
\* warning, an activation, a solution or the resumption of the caller.
QuietFailure(i) ==
    /\ trace[i].present /\ trace[i].warned = 0
    /\ trace[i].p = Delay(<< [th |-> "pcall", pi |-> NoClauseProc,
                              args |-> trace[i].args, k |-> trace[i].k] >>)
    /\ i < Len(trace) => trace[i + 1].ev = "false"

C24_EmptyProcedureFails ==
    scn.name \in {"empty", "empty_body"} =>
        /\ Ev("warn") = {}
        /\ \A i \in CallsOfNoClause : QuietFailure(i)
        /\ result # Nil => result.err = Nil
        /\ scn.name = "empty" => (Sols = <<>> /\ (Finished => Failed))
        /\ scn.name = "empty_body" =>
              \A n \in 1..Len(Sols) : Sols[n] = <<Atom("b")>>

C24_Witness ==
    /\ scn.name = "empty_body" /\ unknown = unknownError /\ Finished
    /\ Cardinality(CallsOfNoClause) = 1 /\ Len(Sols) = 1

-----------------------------------------------------------------------------
(* C22.  The top level over any sequence of lines.  The text handed to the *)
(* parser is the lines read since the last query that parsed or was        *)
(* rejected, so the buffer grows exactly while the parser reports end of   *)
(* input, and the text of a finished or rejected query is never put before *)
(* the next one; the prompt is '|- ' while the buffer grows and '?- '      *)
(* otherwise.  Of a parsed query the solutions are shown one at a time and *)
(* another is asked for only after ';' was typed; on every return the      *)
(* solution stream has been closed; 'false.' is printed exactly when the   *)
(* stream gave no solution and reports no error.                           *)
Incomplete(i) == i >= 1 /\ repl.queries[i].err = "EOF"

\* The first of the lines that make the text of query i: the line after the last
\* query before i that parsed or was rejected.
FirstLineOf(i) ==
    CHOOSE f \in 1..i : /\ f = 1 \/ ~Incomplete(f - 1)
                        /\ \A j \in f..(i - 1) : Incomplete(j)

TextIsPendingLines ==
    \A i \in 1..Len(repl.queries) :
        repl.queries[i].text = SubSeq(repl.lines, FirstLineOf(i), i)

\* Between the parser's answer and the next line read.
BufferAndPrompt ==
    (repl.pc # "QueryContext") =>
        IF Incomplete(Len(repl.queries))
        THEN /\ repl.buf = repl.queries[Len(repl.queries)].text
             /\ repl.prompt = contPrompt
        ELSE repl.buf = <<>> /\ repl.prompt = prompt

Count(seq, x) == Cardinality({i \in 1..Len(seq) : seq[i] = x})

OneAtATime ==
    repl.sols # Nil =>
        /\ repl.sols.nexts <= 1 + Count(repl.out, ";")
        /\ Count(repl.out, "sol") <= repl.sols.got
        /\ repl.sols.got <= Count(repl.out, "sol") + 1
        /\ \A i \in 1..Len(repl.out) :
              /\ repl.out[i] = "sol" => (i % 2 = 1)
              /\ repl.out[i] \in {";", "."} => (i % 2 = 0 /\ repl.out[i - 1] = "sol")
              /\ repl.out[i] = "." => i = Len(repl.out)

AtRest == repl.pc \in {"ReadLine", "exit", "panic"}

ClosedOnReturn ==
    repl.sols # Nil => repl.sols.closed = (IF AtRest THEN 1 ELSE 0)

FalseWhenNone ==
    /\ Count(repl.out, "false.") > 0 =>
          /\ repl.sols # Nil /\ repl.sols.got = 0 /\ ~repl.sols.err
          /\ repl.out = << "false." >>
    /\ (repl.pc = "ReadLine" /\ repl.sols # Nil /\ repl.sols.got = 0 /\ ~repl.sols.err)
          => repl.out = << "false." >>

C22_TopLevelBufferAndSolutions ==
    repl # Nil =>
        /\ TextIsPendingLines
        /\ BufferAndPrompt
        /\ OneAtATime
        /\ ClosedOnReturn
        /\ FalseWhenNone

C22_Witness ==
    /\ repl # Nil /\ repl.pc = "ReadLine" /\ Len(repl.queries) = 3
    /\ repl.queries[1].err = "err" /\ repl.queries[2].err = "EOF"
    /\ repl.queries[3].err = "nil"
    /\ repl.queries[3].text = << "p(X", ")." >>
    /\ repl.out = << "sol", ";", "sol", "." >> /\ repl.sols.closed = 1

=============================================================================
